---- MODULE Spec2Model ----
(***************************************************************************)
(* Dispatch engine of the Telegram message-replication service:            *)
(* the dispatcher (_handle_new_message, _queue_message), the bounded       *)
(* priority queue, the worker loop (_message_worker,                       *)
(* _process_queued_message), the per-bot rate limiter (_check_rate_limit)  *)
(* and the per-bot metrics (BotMetrics), from src/bot_manager.py, with the *)
(* send path of src/message_processor.py (process_new_message,             *)
(* _send_message) reduced to the outcome of the BotSendAPI call.           *)
(*                                                                         *)
(* Time is discrete (seconds) and kept relative to time.time(): a sleep is *)
(* the number of seconds left, an admission time t of the rate limiter is  *)
(* its age now - t (ages beyond the window are all alike), rate_limit_until*)
(* is the number of seconds until it is reached.  A QueuedMessage's        *)
(* timestamp is only ever compared with another's, so it is kept as the    *)
(* number of the _queue_message call that made it: time.time() is taken to *)
(* advance from one call to the next.                                      *)
(*                                                                         *)
(* Every await of the worker loop that another task can interleave with is *)
(* a separate action; code between two awaits is one step.                 *)
(***************************************************************************)
EXTENDS Integers, Sequences, FiniteSets, TLC

\* ------------------------------------------------------------------ bounds
\* Number of source events the feed delivers (Spec, which follows them for
\* as long as it takes).
MaxEvents == 1
\* Number of work items the feed's events give rise to, and the seconds the
\* system is followed for after start (SpecQueue).
MaxItems == 4
MaxTime == 2
\* Number of source events and seconds after start (SpecProc).
MaxProcEvents == 1
MaxProcTime == 3
\* Characters of a text, the offsets and lengths an entity is given, and the
\* update_success_rate calls in a row that fail (SpecPure).
MaxText == 3
MaxOffset == 3
MaxUpdates == 12

\* ----------------------------------------------------------- configuration
\* config.MAX_WORKERS, config.MESSAGE_QUEUE_SIZE, config.RATE_LIMIT_MESSAGES,
\* config.RATE_LIMIT_WINDOW, len(self.telegram_bots): small values.
MAX_WORKERS == 2
MESSAGE_QUEUE_SIZE == 2
RATE_LIMIT_MESSAGES == 1
RATE_LIMIT_WINDOW == 2
NumBots == 1

\* MessagePriority
URGENT == 4
HIGH == 3
NORMAL == 2
LOW == 1

\* QueuedMessage.max_retries
max_retries == 3

\* asyncio.sleep(5) of a worker that found the system paused
PauseSleep == 5

\* retry_after carried by the RetryAfter error the upstream API raises
RetryAfterSecs == 3

\* BotMetrics.success_rate is kept in tenths, rounded down: Scale is 1.0
Scale == 10

Workers == 1..MAX_WORKERS
Bots == 0..(NumBots - 1)

\* ------------------------------------------------------------------- pairs
\* self.pairs after _load_pairs.  Pairs 1 and 2 are active on the same source
\* chat; pair 1 asks for at least 2 characters and allows photos only, pair 2
\* syncs neither edits nor deletes.  Pair 3 is assigned a bot index beyond
\* the bots that initialised and leaves sync_edits, sync_deletes and
\* preserve_replies unset.  Pair 4 is loaded paused, on the chat of pairs 1
\* and 2.  Pair 5, on a chat of its own, is assigned the bot index -1 and
\* does not preserve replies.  `unset` names the filters a pair has no value
\* for (the value given here for them is not read).
Chats == {1001, 1002}
AllChats == Chats \cup {1003}
PairIds == 1..5

\* The default of the filter allowed_media_types
AllMediaTypes == {"photo", "video", "document", "audio", "voice", "animation",
                  "video_note", "sticker", "webpage"}

InitPairs ==
    [p \in PairIds |->
        [id |-> p,
         status |-> IF p = 4 THEN "paused" ELSE "active",
         source_chat_id |-> CASE p = 3 -> 1002 [] p = 5 -> 1003 [] OTHER -> 1001,
         assigned_bot_index |-> CASE p = 3 -> NumBots [] p = 5 -> -1 [] OTHER -> 0,
         preserve_replies |-> p # 5,
         destination_chat_id |-> 2000 + p,
         sync_edits |-> p # 2,
         sync_deletes |-> p # 2,
         unset |-> IF p = 3 THEN {"sync_edits", "sync_deletes", "preserve_replies"}
                   ELSE {},
         min_message_length |-> IF p = 1 THEN 2 ELSE 0,
         allowed_media_types |-> IF p = 1 THEN {"photo"} ELSE AllMediaTypes]]

\* pair.filters.get(key, default)
FilterGet(pair, key, default) == IF key \in pair.unset THEN default ELSE pair[key]

\* self.source_to_pairs as _load_pairs builds it: the active pairs of a chat,
\* in the order the pairs were loaded.
RECURSIVE PairsFrom(_, _, _)
PairsFrom(ps, chat, p) ==
    IF p \notin PairIds THEN <<>>
    ELSE (IF ps[p].status = "active" /\ ps[p].source_chat_id = chat
          THEN <<p>> ELSE <<>>) \o PairsFrom(ps, chat, p + 1)

SourceToPairs(ps, chat) == PairsFrom(ps, chat, 1)

\* "no item": the value of an empty slot
NoMsg == [id |-> 0, type |-> "none", priority |-> 0, timestamp |-> 0,
          pair_id |-> 0, bot_index |-> 0, retry_count |-> 0, handed |-> 0]

\* pair.stats of a pair nothing was processed for
NoStats == [messages_copied |-> 0, messages_filtered |-> 0, edits_synced |-> 0,
            deletes_synced |-> 0, images_blocked |-> 0, errors |-> 0]

VARIABLES
    queue,          \* self.message_queue: the QueuedMessages in the heap, in the order they were put
    worker,         \* per worker: position in _message_worker, item held, seconds of sleep left
    paused,         \* the setting system_paused = "true"
    rate_limiters,  \* self.rate_limiters: per bot, the ages of the admission times (a deque)
    bot_metrics,    \* self.bot_metrics
    events,         \* number of source events delivered so far
    queued,         \* history: number of items _queue_message was called for
    admits,         \* history: per bot, the ages of the admissions of the last window
    sent,           \* history: per bot, the ages of the successful sends of the last window
    elapsed,        \* history: the seconds elapsed, where the specification bounds them
    last,           \* history: the last _queue_message call or processing attempt, when it was the last step
    source,         \* per item queued (by id): the source event it was queued for
    mappings,       \* the MessageMapping rows saved
    stats,          \* pair.stats: the per-pair counters
    delivered,      \* history: the <<chat, message id>> of every message a send_* call returned
    status,         \* pair.status of each pair, as /editpair leaves it
    draft,          \* SpecPure: the text and entities filter_text returned for an event, with the pair's settings; SpecMedia: a media descriptor; SpecEntities: a list of source entities
    outgoing,       \* SpecPure: the BotSendAPI calls made for the draft: their text (or caption) and entities; SpecMedia, SpecEntities: what the function returned
    copies,         \* history: the id of the item of every send_* call that returned a message
    life,           \* self.running, the position of stop(), the monitor tasks, the upstream client, the errors the workers logged
    pairs,          \* self.pairs: the ids of the pairs loaded
    source_to_pairs, \* self.source_to_pairs: per source chat, the ids of its pairs that were active when loaded
    loading,        \* the results of get_all_pairs that a _load_pairs in progress is about to assign
    table           \* the ids of the rows of the pairs table

\* What MessageProcessor works on.  Spec and SpecQueue follow the dispatch
\* engine and reduce the processor to the outcome of its send; SpecProc
\* follows the processor.
\* The registry of pairs, the pairs table and the life cycle, which only
\* SpecStop and SpecReload change, and the history of copies
regVars == <<copies, life, pairs, source_to_pairs, loading, table>>

procVars == <<source, mappings, stats, delivered, status, draft, outgoing, regVars>>

vars == <<queue, worker, paused, rate_limiters, bot_metrics, events, queued, admits, sent, elapsed, last,
          source, mappings, stats, delivered, status, draft, outgoing,
          copies, life, pairs, source_to_pairs, loading, table>>

\* ------------------------------------------------------------------- queue
\* An ordering that looks at the timestamps only
LtIgnorePriority(a, b) == a.timestamp < b.timestamp

\* An ordering that puts the newest item of a priority level first
LtNewestFirst(a, b) ==
    IF a.priority # b.priority
    THEN a.priority > b.priority
    ELSE a.timestamp > b.timestamp

\* QueuedMessage.__lt__
Lt(a, b) ==
    IF a.priority # b.priority
    THEN a.priority > b.priority
    ELSE a.timestamp < b.timestamp

\* The items in the queue
Items(q) == {q[i] : i \in 1..Len(q)}

\* The items PriorityQueue.get / get_nowait may return: the heap's minimum
\* under __lt__.
Heads(q) == {m \in Items(q) : \A o \in Items(q) : ~Lt(o, m)}

\* The queue without the item m
Remove(q, m) == SelectSeq(q, LAMBDA x : x # m)

\* asyncio.Queue.full()
Full(q) == MESSAGE_QUEUE_SIZE > 0 /\ Len(q) >= MESSAGE_QUEUE_SIZE

\* "no attempt": what `last` holds of a processing attempt when the last
\* step was none
NoAttempt == [ev |-> <<>>, result |-> FALSE, sends |-> 0, edits |-> <<>>, deletes |-> <<>>,
              tries |-> 0, mappings |-> {}, stats |-> <<>>, retried |-> FALSE]

NoLast == [op |-> "none", msg |-> NoMsg, evicted |-> NoMsg, before |-> <<>>,
           waited |-> FALSE, batch |-> <<>>, att |-> NoAttempt]

\* A _queue_message that leaves a full queue as it is
QueueMessageDropIncoming(q, m, q_no) ==
    IF Full(q)
    THEN {[q |-> q, msg |-> m, evicted |-> NoMsg, before |-> q, q_no |-> q_no,
           waited |-> FALSE]}
    ELSE {[q |-> Append(q, m), msg |-> m, evicted |-> NoMsg, before |-> q,
           q_no |-> q_no, waited |-> FALSE]}

\* A _queue_message that goes to put without making room: on a full queue
\* the put waits for a consumer
QueueMessagePutOnly(q, m, q_no) ==
    IF Full(q)
    THEN {[q |-> q, msg |-> m, evicted |-> NoMsg, before |-> q, q_no |-> q_no,
           waited |-> TRUE]}
    ELSE {[q |-> Append(q, m), msg |-> m, evicted |-> NoMsg, before |-> q,
           q_no |-> q_no, waited |-> FALSE]}

\* The outcomes of one _queue_message call on queue q with the new item m:
\* a full queue first loses the item get_nowait returns; put then waits if
\* what is left is still full, which it never is.  (q_no counts the calls.)
QueueMessage(q, m, q_no) ==
    IF Full(q)
    THEN {[q |-> Append(Remove(q, v), m), msg |-> m, evicted |-> v, before |-> q,
           q_no |-> q_no, waited |-> Full(Remove(q, v))] : v \in Heads(q)}
    ELSE {[q |-> Append(q, m), msg |-> m, evicted |-> NoMsg, before |-> q,
           q_no |-> q_no, waited |-> FALSE]}

\* The result r2 of a handler's next _queue_message call after the calls
\* that gave r: the handler waited if any of its calls did, and its batch is
\* the items it queued so far
After(r, r2) ==
    [q |-> r2.q, msg |-> r2.msg, evicted |-> r2.evicted, before |-> r2.before,
     q_no |-> r2.q_no, waited |-> r.waited \/ r2.waited,
     batch |-> Append(r.batch, r2.msg)]

\* ------------------------------------------------------------- dispatcher
\* A priority that does not look at the media
GetMessagePriorityNoMedia(event, pair) ==
    IF event.is_reply /\ FilterGet(pair, "preserve_replies", TRUE) THEN HIGH
    ELSE NORMAL

\* _get_message_priority
GetMessagePriority(event, pair) ==
    IF event.is_reply /\ FilterGet(pair, "preserve_replies", TRUE) THEN HIGH
    ELSE IF event.media THEN HIGH
    ELSE NORMAL

\* The QueuedMessage _handle_new_message builds for pair p (via
\* _queue_message), as the n-th item queued
NewMessageItem(event, p, n) ==
    [id |-> n,
     type |-> "new_message",
     priority |-> GetMessagePriority(event, InitPairs[p]),
     timestamp |-> n,
     pair_id |-> p,
     bot_index |-> InitPairs[p].assigned_bot_index,
     retry_count |-> 0,
     handed |-> 0]

\* The loop of _handle_new_message over the pairs of the chat: the possible
\* results of queueing one item per active pair, in order.
RECURSIVE HandleLoop(_, _, _)
HandleLoop(r, pids, event) ==
    IF pids = <<>> THEN {r}
    ELSE LET p == Head(pids) IN
         IF status[p] # "active"
         THEN HandleLoop(r, Tail(pids), event)
         ELSE UNION {HandleLoop(After(r, r2), Tail(pids), event) :
                        r2 \in QueueMessage(r.q, NewMessageItem(event, p, r.q_no + 1), r.q_no + 1)}

\* _handle_new_message: no await of the handler suspends (put finds room),
\* so the handler is one step.
HandleNewMessage(chat, is_reply, media) ==
    /\ LET event == [id |-> events + 1, is_reply |-> is_reply, media |-> media]
           start == [q |-> queue, msg |-> NoMsg, evicted |-> NoMsg, before |-> queue,
                     q_no |-> queued, waited |-> FALSE, batch |-> <<>>]
       IN \E r \in HandleLoop(start, SourceToPairs(InitPairs, chat), event) :
            /\ queue' = r.q
            /\ last' = [NoLast EXCEPT !.op = "queue_message", !.msg = r.msg,
                                      !.evicted = r.evicted, !.before = r.before,
                                      !.waited = r.waited]
            /\ queued' = r.q_no
    /\ events' = events + 1
    /\ UNCHANGED <<worker, paused, rate_limiters, bot_metrics, admits, sent, elapsed, procVars>>

\* ------------------------------------------------- dispatcher, every event
\* The source events SpecProc feeds: a new message, an edit, or a deletion of
\* a batch of messages.  text_len is the length of the text filter_text
\* leaves, copy the verdict of MessageFilter.should_copy_message, media the
\* class of event.media ("none" for no media).
MsgIds == {1, 2}
TextLens == {0, 1, 3}
MediaClasses == {"none", "photo", "video", "webpage"}
IdBatches == {<<1>>, <<2>>, <<1, 2>>, <<2, 1>>}

SourceEvent(kind, chat, id, text_len, media, copy, deleted_ids) ==
    [kind |-> kind, chat_id |-> chat, id |-> id, text_len |-> text_len,
     media |-> media, copy |-> copy, deleted_ids |-> deleted_ids, is_reply |-> FALSE]

NewEvents ==
    {SourceEvent("new", c, i, t, m, TRUE, <<>>) :
        c \in Chats, i \in MsgIds, t \in TextLens, m \in MediaClasses}
    \cup {SourceEvent("new", c, i, 3, "none", FALSE, <<>>) : c \in Chats, i \in MsgIds}

EditEvents ==
    {SourceEvent("edit", c, i, t, "none", TRUE, <<>>) :
        c \in Chats, i \in MsgIds, t \in TextLens}

DeleteEvents ==
    {SourceEvent("delete", c, 0, 0, "none", TRUE, d) : c \in Chats, d \in IdBatches}

\* The QueuedMessage _handle_message_edited (HIGH) and _handle_message_deleted
\* (NORMAL) build for pair p, as the n-th item queued
SyncItem(ev, p, n) ==
    [id |-> n,
     type |-> IF ev.kind = "edit" THEN "edit_message" ELSE "delete_message",
     priority |-> IF ev.kind = "edit" THEN HIGH ELSE NORMAL,
     timestamp |-> n,
     pair_id |-> p,
     bot_index |-> InitPairs[p].assigned_bot_index,
     retry_count |-> 0,
     handed |-> 0]

\* Whether the pair takes the event: sync_edits (default True) for an edit,
\* sync_deletes (default False) for a deletion
Syncs(ev, pair) ==
    IF ev.kind = "edit"
    THEN FilterGet(pair, "sync_edits", TRUE)
    ELSE FilterGet(pair, "sync_deletes", FALSE)

\* The loop of _handle_message_edited and of _handle_message_deleted over
\* the pairs of the chat
RECURSIVE SyncLoop(_, _, _)
SyncLoop(r, pids, ev) ==
    IF pids = <<>> THEN {r}
    ELSE LET p == Head(pids) IN
         IF status[p] # "active" \/ ~Syncs(ev, InitPairs[p])
         THEN SyncLoop(r, Tail(pids), ev)
         ELSE UNION {SyncLoop(After(r, r2), Tail(pids), ev) :
                        r2 \in QueueMessage(r.q, SyncItem(ev, p, r.q_no + 1), r.q_no + 1)}

\* _handle_new_message, _handle_message_edited, _handle_message_deleted for
\* the source event ev; every item queued is recorded with its event.
HandleSourceEvent(ev) ==
    /\ LET start == [q |-> queue, msg |-> NoMsg, evicted |-> NoMsg, before |-> queue,
                     q_no |-> queued, waited |-> FALSE, batch |-> <<>>]
           pids == SourceToPairs(InitPairs, ev.chat_id)
           rs == IF ev.kind = "new"
                 THEN HandleLoop(start, pids, [id |-> ev.id, is_reply |-> ev.is_reply,
                                               media |-> ev.media # "none"])
                 ELSE SyncLoop(start, pids, ev)
       IN \E r \in rs :
            /\ queue' = r.q
            /\ last' = IF r.q_no = queued
                       THEN NoLast
                       ELSE [NoLast EXCEPT !.op = "queue_message", !.msg = r.msg,
                                           !.evicted = r.evicted, !.before = r.before,
                                           !.waited = r.waited, !.batch = r.batch]
            /\ queued' = r.q_no
            /\ source' = source \o [i \in 1..(r.q_no - queued) |-> ev]
    /\ events' = events + 1
    /\ UNCHANGED <<worker, paused, rate_limiters, bot_metrics, admits, sent, elapsed,
                   mappings, stats, delivered, status, draft, outgoing, regVars>>

\* ---------------------------------------------------------------- commands
\* _cmd_edit_pair, setting "status": pair.status is set; source_to_pairs is
\* left as _load_pairs built it
CmdEditPair(p, value) ==
    /\ status' = [status EXCEPT ![p] = value]
    /\ last' = NoLast
    /\ UNCHANGED <<queue, worker, paused, rate_limiters, bot_metrics, events, queued,
                   admits, sent, elapsed, source, mappings, stats, delivered, draft,
                   outgoing, regVars>>

\* _cmd_pause
CmdPause ==
    /\ paused' = TRUE
    /\ last' = NoLast
    /\ UNCHANGED <<queue, worker, rate_limiters, bot_metrics, events, queued, admits, sent, elapsed, procVars>>

\* _cmd_resume
CmdResume ==
    /\ paused' = FALSE
    /\ last' = NoLast
    /\ UNCHANGED <<queue, worker, rate_limiters, bot_metrics, events, queued, admits, sent, elapsed, procVars>>

\* ------------------------------------------------------------ rate limiter
\* "Remove old entries": popleft while rate_limiter[0] < now - RATE_LIMIT_WINDOW,
\* that is while the age of the oldest entry exceeds the window
RECURSIVE Expire(_)
Expire(rl) ==
    IF rl # <<>> /\ Head(rl) > RATE_LIMIT_WINDOW
    THEN Expire(Tail(rl))
    ELSE rl

\* bot_metrics.get(i): None for an index without metrics
HasMetrics(i) == i \in Bots

\* A _check_rate_limit that denies only beyond RATE_LIMIT_MESSAGES entries
CheckRateLimitOffByOne(bot_index) ==
    IF HasMetrics(bot_index) /\ bot_metrics[bot_index].rate_limit_until > 0
    THEN [admit |-> FALSE, rl |-> rate_limiters[bot_index]]
    ELSE LET rl == Expire(rate_limiters[bot_index]) IN
         IF Len(rl) > RATE_LIMIT_MESSAGES
         THEN [admit |-> FALSE, rl |-> rl]
         ELSE [admit |-> TRUE, rl |-> Append(rl, 0)]

\* _check_rate_limit: the result and the deque it leaves
CheckRateLimit(bot_index) ==
    IF HasMetrics(bot_index) /\ bot_metrics[bot_index].rate_limit_until > 0
    THEN [admit |-> FALSE, rl |-> rate_limiters[bot_index]]
    ELSE LET rl == Expire(rate_limiters[bot_index]) IN
         IF Len(rl) >= RATE_LIMIT_MESSAGES
         THEN [admit |-> FALSE, rl |-> rl]
         ELSE [admit |-> TRUE, rl |-> Append(rl, 0)]

\* ----------------------------------------------------------------- metrics
\* An update that adds the outcome unweighted
UpdateSuccessRateUnweighted(m, success) ==
    [m EXCEPT !.success_rate = (IF success THEN Scale ELSE 0) + (9 * @) \div 10,
              !.consecutive_failures = IF success THEN 0 ELSE @ + 1]

\* BotMetrics.update_success_rate (alpha = 0.1), in tenths, rounded down
UpdateSuccessRate(m, success) ==
    [m EXCEPT !.success_rate = ((IF success THEN Scale ELSE 0) + 9 * @) \div 10,
              !.consecutive_failures = IF success THEN 0 ELSE @ + 1]

\* ------------------------------------------------------------------ worker
Idle == [pc |-> "get", msg |-> NoMsg, sleep |-> 0]

\* The three monitor tasks start() appends to self.worker_tasks
Monitors == {"health", "queue", "rate_limit"}

\* "Get bot and pair": an index beyond the bots falls back to the primary
\* bot; the result is the bot_index the rest of _process_queued_message uses
ResolveBot(bot_index) == IF bot_index >= NumBots THEN 0 ELSE bot_index

\* self.telegram_bots[bot_index]: the position of the bot a list index
\* yields, a negative index counting from the end
BotAt(bot_index) == IF bot_index < 0 THEN NumBots + bot_index ELSE bot_index

\* The keys self.rate_limiters (a defaultdict) comes to hold: the bots, and
\* the resolved index of every pair
LimiterKeys ==
    Bots \cup {ResolveBot(InitPairs[p].assigned_bot_index) : p \in PairIds}

\* 2 ** retry_count
RECURSIVE Pow2(_)
Pow2(n) == IF n = 0 THEN 1 ELSE 2 * Pow2(n - 1)

\* A retry test that lets an item with retry_count = max_retries through
ShouldRetryInclusive(msg, success) == ~success /\ msg.retry_count <= max_retries

\* "Handle retry if failed": whether the worker re-enqueues the item
ShouldRetry(msg, success) == ~success /\ msg.retry_count < max_retries

\* A backoff of 2 ** retry_count taken before retry_count is incremented
AfterProcessEarlyBackoff(msg, success) ==
    IF ShouldRetry(msg, success)
    THEN [pc |-> "backoff",
          msg |-> [msg EXCEPT !.retry_count = @ + 1],
          sleep |-> Pow2(msg.retry_count)]
    ELSE Idle

\* The worker's state after _process_queued_message returned `success` for
\* msg: the item enters its backoff sleep with retry_count incremented, or
\* the worker is done with it.
AfterProcess(msg, success) ==
    IF ShouldRetry(msg, success)
    THEN [pc |-> "backoff",
          msg |-> [msg EXCEPT !.retry_count = @ + 1],
          sleep |-> Pow2(msg.retry_count + 1)]
    ELSE Idle

\* "Update metrics": on bot_metrics.get(queued_msg.bot_index), when present
MetricsAfter(msg, success) ==
    IF HasMetrics(msg.bot_index)
    THEN [bot_metrics EXCEPT ![msg.bot_index] = UpdateSuccessRate(@, success)]
    ELSE bot_metrics

\* Whether the worker's check of system_paused sends the item back
IsPaused(setting) == setting

\* await self.message_queue.get(): a worker takes the head of the queue
Dequeue(w) ==
    /\ worker[w].pc = "get"
    /\ queue # <<>>
    /\ \E m \in Heads(queue) :
        /\ queue' = Remove(queue, m)
        /\ worker' = [worker EXCEPT ![w] = [pc |-> "check_paused", msg |-> m, sleep |-> 0]]
        /\ last' = NoLast
    /\ UNCHANGED <<paused, rate_limiters, bot_metrics, events, queued, admits, sent, elapsed, procVars>>

\* get_setting returned "true": put the item back (put waits while the queue
\* is full), then sleep 5 seconds
WorkerPaused(w) ==
    /\ worker[w].pc = "check_paused"
    /\ IsPaused(paused)
    /\ IF Full(queue)
       THEN /\ worker' = [worker EXCEPT ![w].pc = "pause_put"]
            /\ UNCHANGED queue
       ELSE /\ queue' = Append(queue, worker[w].msg)
            /\ worker' = [worker EXCEPT ![w] =
                            [pc |-> "pause_sleep", msg |-> NoMsg, sleep |-> PauseSleep]]
    /\ last' = NoLast
    /\ UNCHANGED <<paused, rate_limiters, bot_metrics, events, queued, admits, sent, elapsed, procVars>>

\* get_setting returned "false": _process_queued_message starts and runs
\* without suspending up to the rate-limit check.  A denial returns False at
\* once (metrics update and retry handling follow in the same step); an
\* admission goes on to the awaits of process_new_message.
ProcessStart(w) ==
    /\ worker[w].pc = "check_paused"
    /\ ~IsPaused(paused)
    /\ LET msg == [worker[w].msg EXCEPT !.handed = @ + 1]
           bot_index == ResolveBot(msg.bot_index)
           bot == BotAt(bot_index)
           chk == CheckRateLimit(bot_index)
       IN /\ rate_limiters' = [rate_limiters EXCEPT ![bot_index] = chk.rl]
          /\ admits' = IF chk.admit THEN [admits EXCEPT ![bot] = Append(@, 0)] ELSE admits
          /\ IF chk.admit
             THEN /\ worker' = [worker EXCEPT ![w] = [@ EXCEPT !.pc = "process", !.msg = msg]]
                  /\ last' = NoLast
                  /\ UNCHANGED bot_metrics
             ELSE /\ worker' = [worker EXCEPT ![w] = AfterProcess(msg, FALSE)]
                  /\ bot_metrics' = MetricsAfter(msg, FALSE)
                  /\ last' = [NoLast EXCEPT !.op = "denied", !.msg = msg]
    /\ UNCHANGED <<queue, paused, events, queued, sent, elapsed, procVars>>

\* The errors a BotSendAPI call can end with, and completion
Outcomes == {"ok", "Forbidden", "BadRequest", "RetryAfter", "NetworkError"}

\* _send_message: what it returns (a sent message or None) and the error it
\* lets through to its caller, for the outcome of the send call and, after a
\* BadRequest, of the fallback send.
SendMessage(outcome, fallback) ==
    CASE outcome = "ok" -> [message |-> TRUE, raised |-> "none"]
      [] outcome = "Forbidden" -> [message |-> FALSE, raised |-> "none"]
      [] outcome = "BadRequest" -> [message |-> fallback = "ok", raised |-> "none"]
      [] OTHER -> [message |-> FALSE, raised |-> "none"]

\* The number of BotSendAPI send calls _send_message makes
SendCalls(outcome) == IF outcome = "BadRequest" THEN 2 ELSE 1

\* process_new_message from the send on: True when a message was sent; an
\* error that reaches it is caught and gives False
ProcessNewMessage(r) == r.raised = "none" /\ r.message

\* The except clauses of _process_queued_message: an upstream RetryAfter that
\* reaches it sets rate_limit_until on bot_metrics.get(queued_msg.bot_index)
FloodWaitMetrics(msg, r) ==
    IF r.raised = "RetryAfter" /\ HasMetrics(msg.bot_index)
    THEN [bot_metrics EXCEPT ![msg.bot_index].rate_limit_until = RetryAfterSecs]
    ELSE bot_metrics

\* ------------------------------------------------------ message processor
\* max_retries of _process_media: the download attempts
DownloadAttempts == 3

\* db_manager.get_message_mapping: the rows for (source message id, pair id)
GetMessageMapping(ms, source_message_id, pair_id) ==
    {m \in ms : m.source_message_id = source_message_id /\ m.pair_id = pair_id}

\* A save that inserts a row whatever the store holds
SaveMessageMappingInsert(ms, m) == ms \cup {m}

\* db_manager.save_message_mapping: insert, idempotent on (source message id,
\* pair id)
SaveMessageMapping(ms, m) ==
    IF GetMessageMapping(ms, m.source_message_id, m.pair_id) # {}
    THEN ms
    ELSE ms \cup {m}

\* The message id the upstream API gives the next message sent to the chat
NextMessageId(dl, chat) == Cardinality({d \in dl : d[1] = chat}) + 1

\* _process_message_content: the length of the content, -1 for None (the
\* text is under the pair's min_message_length)
ProcessMessageContent(ev, pair) ==
    IF pair.min_message_length > 0 /\ ev.text_len < pair.min_message_length
    THEN -1
    ELSE ev.text_len

\* `not processed_content`: None or the empty string
NoContent(content) == content <= 0

\* _get_media_type for the classes of media the feed delivers
GetMediaType(media) ==
    CASE media = "photo" -> "photo"
      [] media = "video" -> "video"
      [] OTHER -> "unknown"

\* _process_media: "info" with the media type for a media_info dict,
\* "blocked" for False, "none" for None.  image_blocked is the verdict of
\* image_handler.is_image_blocked, good the number of the first download
\* attempt that yields data (0: none does); tries counts the downloads.
ProcessMedia(ev, pair, image_blocked, good) ==
    LET media_type == GetMediaType(ev.media) IN
    IF ev.media = "webpage"
    THEN [kind |-> "info", type |-> "webpage", images_blocked |-> 0, tries |-> 0]
    ELSE IF media_type \notin pair.allowed_media_types
    THEN [kind |-> "blocked", type |-> media_type, images_blocked |-> 0, tries |-> 0]
    ELSE IF media_type \in {"photo", "animation"} /\ image_blocked
    THEN [kind |-> "blocked", type |-> media_type, images_blocked |-> 1, tries |-> 0]
    ELSE IF good = 0
    THEN [kind |-> "none", type |-> media_type, images_blocked |-> 0,
          tries |-> DownloadAttempts]
    ELSE [kind |-> "info", type |-> media_type, images_blocked |-> 0, tries |-> good]

\* What a processing attempt did: its result, the upstream calls it made
\* (the number of send_* calls, the <<chat, message id>> of the edit and
\* delete calls), the downloads, and the store, the counters of the pair and
\* the messages delivered as it leaves them.
Attempt(result, sends, edits, deletes, tries, ms, st, dl) ==
    [result |-> result, sends |-> sends, edits |-> edits, deletes |-> deletes,
     tries |-> tries, mappings |-> ms, stats |-> st, delivered |-> dl]

\* The "Media blocked" and "not should_copy" exits: messages_filtered += 1
Filtered(st, images_blocked) ==
    [st EXCEPT !.messages_filtered = @ + 1, !.images_blocked = @ + images_blocked]

\* A mapping saved whether or not a message was sent
MappingToSaveAlways(ev, msg, pair, sent_message, message_id) ==
    {[source_message_id |-> ev.id, pair_id |-> msg.pair_id,
      destination_message_id |-> message_id,
      bot_index |-> ResolveBot(msg.bot_index),
      destination_chat_id |-> pair.destination_chat_id]}

\* "Save message mapping": the MessageMapping process_new_message saves when
\* _send_message returned a message, with the message's id
MappingToSave(ev, msg, pair, sent_message, message_id) ==
    IF sent_message
    THEN {[source_message_id |-> ev.id, pair_id |-> msg.pair_id,
           destination_message_id |-> message_id,
           bot_index |-> ResolveBot(msg.bot_index),
           destination_chat_id |-> pair.destination_chat_id]}
    ELSE {}

\* The rows of `rows` saved one after the other
RECURSIVE SaveAll(_, _)
SaveAll(ms, rows) ==
    IF rows = {} THEN ms
    ELSE LET m == CHOOSE x \in rows : TRUE
         IN SaveAll(SaveMessageMapping(ms, m), rows \ {m})

\* process_new_message for the event ev of item msg, from the store ms, the
\* pair's counters st and the messages delivered dl.  inp holds what the
\* attempt meets: the image verdict, the downloads, the outcome of the send
\* call and of the fallback send.
ProcessNewMessageRun(ev, msg, pair, inp, ms, st, dl) ==
    LET content == ProcessMessageContent(ev, pair)
        media == ProcessMedia(ev, pair, inp.image_blocked, inp.good)
        r == SendMessage(inp.outcome, inp.fallback)
        message_id == NextMessageId(dl, pair.destination_chat_id)
    IN
    IF ~ev.copy
    THEN Attempt(TRUE, 0, <<>>, <<>>, 0, ms, Filtered(st, 0), dl)
    ELSE IF NoContent(content)
    THEN Attempt(FALSE, 0, <<>>, <<>>, 0, ms, st, dl)
    ELSE IF ev.media # "none" /\ media.kind = "blocked"
    THEN Attempt(TRUE, 0, <<>>, <<>>, 0, ms, Filtered(st, media.images_blocked), dl)
    ELSE Attempt(ProcessNewMessage(r),
                 SendCalls(inp.outcome), <<>>, <<>>,
                 IF ev.media # "none" THEN media.tries ELSE 0,
                 SaveAll(ms, MappingToSave(ev, msg, pair, r.message, message_id)),
                 IF r.message THEN [st EXCEPT !.messages_copied = @ + 1] ELSE st,
                 IF r.message
                 THEN dl \cup {<<pair.destination_chat_id, message_id>>}
                 ELSE dl)

\* The outcomes of a bot.edit_message_text call
EditOutcomes == {"ok", "not_modified", "BadRequest", "NetworkError"}

\* An edit without a mapping that is reported as a failure
MissingMappingFails(ms, st, dl) == Attempt(FALSE, 0, <<>>, <<>>, 0, ms, st, dl)

\* "No mapping found for edited message": not an error
MissingMapping(ms, st, dl) == Attempt(TRUE, 0, <<>>, <<>>, 0, ms, st, dl)

\* An edit call addressed with the source message id
EditCallSourceId(pair, mapping) ==
    <<pair.destination_chat_id, mapping.source_message_id>>

\* The chat_id and message_id of the bot.edit_message_text call
EditCall(pair, mapping) ==
    <<pair.destination_chat_id, mapping.destination_message_id>>

\* process_message_edit; inp.edit is the outcome of the edit call
ProcessMessageEdit(ev, msg, pair, inp, ms, st, dl) ==
    LET found == GetMessageMapping(ms, ev.id, msg.pair_id)
        content == ProcessMessageContent(ev, pair)
    IN
    IF found = {}
    THEN MissingMapping(ms, st, dl)
    ELSE IF NoContent(content)
    THEN Attempt(FALSE, 0, <<>>, <<>>, 0, ms, st, dl)
    ELSE LET mapping == CHOOSE m \in found : TRUE
             call == <<EditCall(pair, mapping)>>
         IN CASE inp.edit = "ok" ->
                   Attempt(TRUE, 0, call, <<>>, 0, ms,
                           [st EXCEPT !.edits_synced = @ + 1], dl)
              [] inp.edit = "not_modified" ->
                   Attempt(TRUE, 0, call, <<>>, 0, ms, st, dl)
              [] OTHER ->
                   Attempt(FALSE, 0, call, <<>>, 0, ms, st, dl)

\* The outcomes of a bot.delete_message call
DeleteOutcomes == {"ok", "not_found", "BadRequest", "NetworkError"}

\* The loop of process_message_delete over event.deleted_ids from position i:
\* the calls made so far, deleted_count, and whether an error other than
\* BadRequest ended the loop.  outs[i] is the outcome of the call for the
\* i-th id.
RECURSIVE DeleteLoop(_, _, _, _, _, _)
DeleteLoop(ids, outs, pair, ms, i, acc) ==
    IF i > Len(ids) THEN acc
    ELSE LET found == GetMessageMapping(ms, ids[i], pair.id) IN
         IF found = {}
         THEN DeleteLoop(ids, outs, pair, ms, i + 1, acc)
         ELSE LET mapping == CHOOSE m \in found : TRUE
                  call == <<pair.destination_chat_id, mapping.destination_message_id>>
                  calls == Append(acc.calls, call)
              IN CASE outs[i] = "ok" ->
                        DeleteLoop(ids, outs, pair, ms, i + 1,
                                   [acc EXCEPT !.calls = calls, !.deleted_count = @ + 1])
                   [] outs[i] \in {"not_found", "BadRequest"} ->
                        DeleteLoop(ids, outs, pair, ms, i + 1,
                                   [acc EXCEPT !.calls = calls])
                   [] OTHER ->
                        [acc EXCEPT !.calls = calls, !.raised = TRUE]

\* process_message_delete; inp.dels holds the outcomes of the delete calls
ProcessMessageDelete(ev, msg, pair, inp, ms, st, dl) ==
    LET loop == DeleteLoop(ev.deleted_ids, inp.dels, pair, ms, 1,
                           [calls |-> <<>>, deleted_count |-> 0, raised |-> FALSE])
    IN IF loop.raised
       THEN Attempt(FALSE, 0, <<>>, loop.calls, 0, ms, st, dl)
       ELSE Attempt(TRUE, 0, <<>>, loop.calls, 0, ms,
                    IF loop.deleted_count > 0
                    THEN [st EXCEPT !.deletes_synced = @ + loop.deleted_count]
                    ELSE st,
                    dl)

\* ------------------------------------------------------- text and entities
\* A text is the sequence of its characters, each given by the number of
\* UTF-16 code units it takes: 1, or 2 for a character beyond the BMP.
Chars == {1, 2}

\* len(text.encode('utf-16-le')) // 2
RECURSIVE Utf16Len(_)
Utf16Len(text) == IF text = <<>> THEN 0 ELSE Head(text) + Utf16Len(Tail(text))

\* text[:n]
Take(text, n) == SubSeq(text, 1, IF n < Len(text) THEN n ELSE Len(text))

\* "..."
Dots == <<1, 1, 1>>

\* content[:1024], the caption of a media message, with a smaller limit
CaptionLimit == 2

\* "no draft": SpecPure follows no text
NoDraft == [kind |-> "none", text |-> <<>>, entities |-> <<>>,
            max_message_length |-> 0, done |-> FALSE]

\* _process_message_content, "Truncate text and adjust entities", for the
\* text and entities filter_text returned
Truncate(text, entities, max_length) ==
    IF max_length > 0 /\ Len(text) > max_length
    THEN [text |-> Take(text, max_length) \o Dots,
          entities |-> SelectSeq(entities,
                                 LAMBDA e : e.offset + e.length <= max_length)]
    ELSE [text |-> text, entities |-> entities]

\* The name of an entity class after "MessageEntity", as the words it is
\* made of
Words(type) ==
    CASE type = "TextUrl" -> <<"Text", "Url">>
      [] type = "MentionName" -> <<"Mention", "Name">>
      [] type = "CustomEmoji" -> <<"Custom", "Emoji">>
      [] type = "BotCommand" -> <<"Bot", "Command">>
      [] OTHER -> <<type>>

\* `part in entity_type`: the substring test of the branches, word by word
\* (the names overlap in whole words only)
In(part, type) ==
    \E i \in 0..(Len(Words(type)) - Len(Words(part))) :
        SubSeq(Words(type), i + 1, i + Len(Words(part))) = Words(part)

\* The branches of _convert_entities_for_telegram, in the order of the
\* if / elif chain
Branches ==
    <<"Bold", "Italic", "Code", "Pre", "Strike", "Underline", "Spoiler", "Url", "TextUrl",
      "Mention", "MentionName", "CustomEmoji", "Hashtag", "Cashtag", "BotCommand", "Email",
      "Phone">>

\* The branch the chain takes for an entity class: the first whose test
\* matches ("none": the else branch)
Branch(type) ==
    IF \E i \in 1..Len(Branches) : In(Branches[i], type)
    THEN Branches[CHOOSE i \in 1..Len(Branches) :
                     /\ In(Branches[i], type)
                     /\ \A j \in 1..(i - 1) : ~In(Branches[j], type)]
    ELSE "none"

\* The MessageEntity type a branch builds
Destination(branch) ==
    CASE branch = "Bold" -> "BOLD"
      [] branch = "Italic" -> "ITALIC"
      [] branch = "Code" -> "CODE"
      [] branch = "Pre" -> "PRE"
      [] branch = "Strike" -> "STRIKETHROUGH"
      [] branch = "Underline" -> "UNDERLINE"
      [] branch = "Spoiler" -> "SPOILER"
      [] branch = "Url" -> "URL"
      [] branch = "TextUrl" -> "TEXT_LINK"
      [] branch = "Mention" -> "MENTION"
      [] branch = "MentionName" -> "TEXT_MENTION"
      [] branch = "CustomEmoji" -> "CUSTOM_EMOJI"
      [] branch = "Hashtag" -> "HASHTAG"
      [] branch = "Cashtag" -> "CASHTAG"
      [] branch = "BotCommand" -> "BOT_COMMAND"
      [] branch = "Email" -> "EMAIL"
      [] OTHER -> "PHONE_NUMBER"

\* str() of a one-digit id
IdString(n) == <<"0", "1", "2", "3", "4", "5", "6", "7", "8", "9">>[n + 1]

\* The body of the loop of _convert_entities_for_telegram for one entity:
\* what it appends.  url is "" and user_id, document_id are 0 when the
\* source entity has none.
ConvertEntity(e) ==
    IF e.offset < 0 \/ e.length <= 0 THEN <<>>
    ELSE LET branch == Branch(e.type)
             entity == [type |-> Destination(branch), offset |-> e.offset,
                        length |-> e.length]
         IN CASE branch = "none" -> <<>>
              [] branch = "Pre" ->
                    <<[type |-> entity.type, offset |-> e.offset, length |-> e.length,
                       language |-> e.language]>>
              [] branch = "TextUrl" ->
                    IF e.url # ""
                    THEN <<[type |-> entity.type, offset |-> e.offset, length |-> e.length,
                            url |-> e.url]>>
                    ELSE <<>>
              [] branch = "MentionName" ->
                    IF e.user_id # 0
                    THEN <<[type |-> entity.type, offset |-> e.offset, length |-> e.length,
                            user |-> e.user_id]>>
                    ELSE <<>>
              [] branch = "CustomEmoji" ->
                    IF e.document_id # 0
                    THEN <<[type |-> entity.type, offset |-> e.offset, length |-> e.length,
                            custom_emoji_id |-> IdString(e.document_id)]>>
                    ELSE <<>>
              [] OTHER -> <<entity>>

\* _convert_entities_for_telegram: an entity with a negative offset, without
\* length or of a type no branch matches is left out
RECURSIVE ConvertEntitiesForTelegram(_)
ConvertEntitiesForTelegram(entities) ==
    IF entities = <<>> THEN <<>>
    ELSE ConvertEntity(Head(entities)) \o ConvertEntitiesForTelegram(Tail(entities))

\* _convert_entities_for_telegram is applied to the entities drawn
Convert ==
    /\ draft # NoDraft
    /\ draft.kind = "entities"
    /\ ~draft.done
    /\ draft' = [draft EXCEPT !.done = TRUE]
    /\ outgoing' = ConvertEntitiesForTelegram(draft.entities)
    /\ UNCHANGED <<queue, worker, paused, rate_limiters, bot_metrics, events, queued,
                   admits, sent, elapsed, last, source, mappings, stats, delivered, status,
                   regVars>>

\* valid_entities.sort(key=lambda e: e.offset): a stable sort by offset
RECURSIVE SortByOffset(_)
SortByOffset(es) ==
    IF es = <<>> THEN <<>>
    ELSE LET rest == SortByOffset(Tail(es))
             e == Head(es)
         IN SelectSeq(rest, LAMBDA x : x.offset < e.offset)
            \o <<e>>
            \o SelectSeq(rest, LAMBDA x : x.offset >= e.offset)

\* The loop of _validate_and_convert_entities over the converted entities
RECURSIVE ValidEntities(_, _)
ValidEntities(es, text_length) ==
    IF es = <<>> THEN <<>>
    ELSE LET e == Head(es)
             rest == ValidEntities(Tail(es), text_length)
         IN IF e.offset < 0 \/ e.length <= 0 THEN rest
            ELSE IF e.offset >= text_length THEN rest
            ELSE IF e.offset + e.length > text_length
            THEN <<[e EXCEPT !.length = text_length - e.offset]>> \o rest
            ELSE <<e>> \o rest

\* _validate_and_convert_entities
ValidateAndConvertEntities(text, entities) ==
    IF text = <<>> \/ entities = <<>>
    THEN <<>>
    ELSE SortByOffset(ValidEntities(ConvertEntitiesForTelegram(entities),
                                    Utf16Len(text)))

\* The text (or caption) and the entities of the call _send_message makes for
\* content and entities: send_message for a text or a webpage preview, a
\* send_* with a caption for other media; no call without content for the
\* first two.  (process_new_message does not get here without content.)
SendCallsFor(kind, content, entities) ==
    LET converted_entities ==
            IF entities # <<>> THEN ValidateAndConvertEntities(content, entities)
            ELSE <<>>
        caption == Take(content, CaptionLimit)
        caption_entities ==
            IF caption # <<>> /\ entities # <<>>
            THEN ValidateAndConvertEntities(caption, entities)
            ELSE <<>>
    IN IF kind = "caption"
       THEN <<[text |-> caption, entities |-> caption_entities]>>
       ELSE IF content # <<>>
       THEN <<[text |-> content, entities |-> converted_entities]>>
       ELSE <<>>

\* The text and entities of the edit_message_text call of
\* process_message_edit: the entities as _process_message_content left them
EditCallsFor(content, entities) ==
    <<[text |-> content, entities |-> entities]>>

\* The calls made for the draft d: _process_message_content, then, with
\* content, the send of process_new_message or the edit of
\* process_message_edit
OutgoingFor(d) ==
    LET c == Truncate(d.text, d.entities, d.max_message_length) IN
    IF c.text = <<>> THEN <<>>
    ELSE IF d.kind = "edit" THEN EditCallsFor(c.text, c.entities)
    ELSE SendCallsFor(d.kind, c.text, c.entities)

\* The first attribute of attrs whose class _get_media_type's loop over
\* document.attributes answers for, and the answer: "none" when there is none
RECURSIVE FirstAttribute(_)
FirstAttribute(attrs) ==
    IF attrs = <<>> THEN "none"
    ELSE LET attr == Head(attrs) IN
         CASE attr.type = "Animated" -> "animation"
           [] attr.type = "Video" -> IF attr.flag THEN "video_note" ELSE "video"
           [] attr.type = "Audio" -> IF attr.flag THEN "voice" ELSE "audio"
           [] attr.type = "Sticker" -> "sticker"
           [] OTHER -> FirstAttribute(Tail(attrs))

\* _get_media_type for the media descriptor d: d.photo says the media is a
\* MessageMediaPhoto (a document otherwise), d.mime is the class of the
\* document's MIME type ("none": no MIME type), d.attributes the document's
\* attributes, the flag of a Video attribute being round_message and that of
\* an Audio attribute voice.
GetMediaTypeOf(d) ==
    IF d.photo THEN "photo"
    ELSE CASE d.mime = "image/gif" -> "animation"
           [] d.mime = "image" -> "photo"
           [] d.mime = "video" -> "video"
           [] d.mime = "audio" ->
                IF \E i \in 1..Len(d.attributes) :
                      d.attributes[i].type = "Audio" /\ d.attributes[i].flag
                THEN "voice" ELSE "audio"
           [] OTHER ->
                IF FirstAttribute(d.attributes) = "none" THEN "document"
                ELSE FirstAttribute(d.attributes)

\* _get_media_type is applied to the media descriptor drawn
Classify ==
    /\ draft # NoDraft
    /\ draft.kind = "media"
    /\ ~draft.done
    /\ draft' = [draft EXCEPT !.done = TRUE]
    /\ outgoing' = <<GetMediaTypeOf(draft.media)>>
    /\ UNCHANGED <<queue, worker, paused, rate_limiters, bot_metrics, events, queued,
                   admits, sent, elapsed, last, source, mappings, stats, delivered, status,
                   regVars>>

\* The processor takes the draft to its BotSendAPI call
Transform ==
    /\ draft # NoDraft
    /\ ~draft.done
    /\ draft' = [draft EXCEPT !.done = TRUE]
    /\ outgoing' = OutgoingFor(draft)
    /\ UNCHANGED <<queue, worker, paused, rate_limiters, bot_metrics, events, queued,
                   admits, sent, elapsed, last, source, mappings, stats, delivered, status,
                   regVars>>

\* update_success_rate(success) is called on bot b's metrics
UpdateRate(b, success) ==
    /\ draft = NoDraft
    /\ bot_metrics[b].consecutive_failures < MaxUpdates
    /\ bot_metrics' = [bot_metrics EXCEPT ![b] = UpdateSuccessRate(@, success)]
    /\ UNCHANGED <<queue, worker, paused, rate_limiters, events, queued,
                   admits, sent, elapsed, last, procVars>>

\* The ages below RATE_LIMIT_WINDOW: what happened less than a window ago
InWindow(ages) == SelectSeq(ages, LAMBDA a : a < RATE_LIMIT_WINDOW)

\* The ages up to RATE_LIMIT_WINDOW: what happened at most a window ago
InClosedWindow(ages) == SelectSeq(ages, LAMBDA a : a <= RATE_LIMIT_WINDOW)

\* The send of process_new_message and everything after it up to the
\* worker's next await: the result, the metrics update, the retry decision.
ProcessSend(w, outcome, fallback) ==
    /\ worker[w].pc = "process"
    /\ outcome # "BadRequest" => fallback = "ok"
    /\ LET msg == worker[w].msg
           bot == BotAt(ResolveBot(msg.bot_index))
           r == SendMessage(outcome, fallback)
           success == ProcessNewMessage(r)
           m1 == FloodWaitMetrics(msg, r)
       IN /\ bot_metrics' =
                IF HasMetrics(msg.bot_index)
                THEN [m1 EXCEPT ![msg.bot_index] = UpdateSuccessRate(@, success)]
                ELSE m1
          /\ sent' = IF r.message
                     THEN [sent EXCEPT ![bot] = Append(@, 0)]
                     ELSE sent
          /\ worker' = [worker EXCEPT ![w] = AfterProcess(msg, success)]
          /\ last' = NoLast
    /\ UNCHANGED <<queue, paused, rate_limiters, events, queued, admits, elapsed, procVars>>

\* What a processing attempt for the event ev can meet: the image verdict
\* (asked for a photo), the first download that yields data (media that is
\* downloaded), the outcome of the send and of the fallback send; the outcome
\* of the edit call; the outcome of the delete call of each deleted id
InputsFor(type, ev) ==
    LET none == [image_blocked |-> FALSE, good |-> 1, outcome |-> "ok", fallback |-> "ok",
                 edit |-> "ok", dels |-> <<>>]
    IN CASE type = "new_message" ->
              {[none EXCEPT !.image_blocked = b, !.good = g, !.outcome = o, !.fallback = f] :
                 b \in IF ev.media = "photo" THEN BOOLEAN ELSE {FALSE},
                 g \in IF ev.media \in {"photo", "video"} THEN 0..DownloadAttempts ELSE {1},
                 o \in Outcomes,
                 f \in {"ok", "failed"}}
         [] type = "edit_message" ->
              {[none EXCEPT !.edit = e] : e \in EditOutcomes}
         [] OTHER ->
              {[none EXCEPT !.dels = d] : d \in [1..Len(ev.deleted_ids) -> DeleteOutcomes]}

\* "Process based on message type": the processor's run for the item
ProcessByType(ev, msg, pair, inp, ms, st, dl) ==
    CASE msg.type = "new_message" -> ProcessNewMessageRun(ev, msg, pair, inp, ms, st, dl)
      [] msg.type = "edit_message" -> ProcessMessageEdit(ev, msg, pair, inp, ms, st, dl)
      [] OTHER -> ProcessMessageDelete(ev, msg, pair, inp, ms, st, dl)

\* What follows the processor's run a for the item worker w holds, up to the
\* worker's next await: the store, the counters and the history are as the
\* run leaves them, then the metrics update and the retry decision.
AttemptDone(w, a) ==
    /\ LET msg == worker[w].msg
           bot == BotAt(ResolveBot(msg.bot_index))
           ev == source[msg.id]
       IN /\ mappings' = a.mappings
          /\ stats' = [stats EXCEPT ![msg.pair_id] = a.stats]
          /\ delivered' = a.delivered
          /\ copies' = IF a.delivered # delivered THEN Append(copies, msg.id) ELSE copies
          /\ bot_metrics' = MetricsAfter(msg, a.result)
          /\ sent' = IF a.delivered # delivered
                     THEN [sent EXCEPT ![bot] = Append(@, 0)]
                     ELSE sent
          /\ worker' = [worker EXCEPT ![w] = AfterProcess(msg, a.result)]
          /\ last' = [NoLast EXCEPT
                        !.op = "process",
                        !.msg = msg,
                        !.att = [ev |-> ev, result |-> a.result, sends |-> a.sends,
                                 edits |-> a.edits, deletes |-> a.deletes,
                                 tries |-> a.tries, mappings |-> mappings,
                                 stats |-> stats[msg.pair_id],
                                 retried |-> ShouldRetry(msg, a.result)]]
    /\ UNCHANGED <<queue, paused, rate_limiters, events, queued, admits, elapsed, source,
                   status, draft, outgoing, life, pairs, source_to_pairs, loading, table>>

\* Like ProcessSend, with the processor followed: the run of the processor
\* for the item the worker holds and everything after it up to the worker's
\* next await: the metrics update, the retry decision.
ProcessItem(w, inp) ==
    /\ worker[w].pc = "process"
    /\ inp.outcome # "BadRequest" => inp.fallback = "ok"
    /\ LET msg == worker[w].msg
           ev == source[msg.id]
           pair == InitPairs[msg.pair_id]
       IN AttemptDone(w, ProcessByType(ev, msg, pair, inp, mappings, stats[msg.pair_id],
                                     delivered))

\* process_new_message when a database call after the send raises: db names
\* the call ("save_error": save_message_mapping, "update_error": the
\* update_pair that follows it).  The handler of process_new_message counts
\* an error and returns False.  An attempt whose send returned no message
\* does not reach these calls.
ProcessNewMessageDb(ev, msg, pair, inp, ms, st, dl, db) ==
    LET a == ProcessNewMessageRun(ev, msg, pair, inp, ms, st, dl) IN
    IF a.delivered = dl \/ db = "ok"
    THEN a
    ELSE IF db = "save_error"
    THEN [a EXCEPT !.result = FALSE, !.mappings = ms,
                   !.stats = [st EXCEPT !.errors = @ + 1]]
    ELSE [a EXCEPT !.result = FALSE, !.stats = [@ EXCEPT !.errors = @ + 1]]

\* Like ProcessItem for a new message, the database calls after the send
\* ending as db says
ProcessItemDb(w, inp, db) ==
    /\ worker[w].pc = "process"
    /\ worker[w].msg.type = "new_message"
    /\ inp.outcome # "BadRequest" => inp.fallback = "ok"
    /\ LET msg == worker[w].msg
           ev == source[msg.id]
           pair == InitPairs[msg.pair_id]
       IN AttemptDone(w, ProcessNewMessageDb(ev, msg, pair, inp, mappings,
                                           stats[msg.pair_id], delivered, db))

\* get_setting raises in the worker loop: the handler of the loop logs the
\* error and sleeps a second; the item the worker holds is not looked at
\* again
GetSettingFails(w) ==
    /\ worker[w].pc = "check_paused"
    /\ worker' = [worker EXCEPT ![w] = [pc |-> "error_sleep", msg |-> NoMsg, sleep |-> 1]]
    /\ last' = NoLast
    /\ UNCHANGED <<queue, paused, rate_limiters, bot_metrics, events, queued, admits, sent,
                   elapsed, procVars>>

\* asyncio.sleep(1) of the loop's error handler is over
ErrorSleepDone(w) ==
    /\ worker[w].pc = "error_sleep"
    /\ worker[w].sleep = 0
    /\ worker' = [worker EXCEPT ![w] = Idle]
    /\ last' = NoLast
    /\ UNCHANGED <<queue, paused, rate_limiters, bot_metrics, events, queued, admits, sent,
                   elapsed, procVars>>


\* A re-enqueue that does not wait for room
BackoffDoneUnbounded(w) ==
    /\ worker[w].pc = "backoff"
    /\ worker[w].sleep = 0
    /\ queue' = Append(queue, worker[w].msg)
    /\ worker' = [worker EXCEPT ![w] = Idle]
    /\ last' = NoLast
    /\ UNCHANGED <<paused, rate_limiters, bot_metrics, events, queued, admits, sent, elapsed, procVars>>

\* The backoff sleep is over: await self.message_queue.put(queued_msg), which
\* waits while the queue is full
BackoffDone(w) ==
    /\ worker[w].pc = "backoff"
    /\ worker[w].sleep = 0
    /\ IF Full(queue)
       THEN /\ worker' = [worker EXCEPT ![w].pc = "retry_put"]
            /\ UNCHANGED queue
       ELSE /\ queue' = Append(queue, worker[w].msg)
            /\ worker' = [worker EXCEPT ![w] = Idle]
    /\ last' = NoLast
    /\ UNCHANGED <<paused, rate_limiters, bot_metrics, events, queued, admits, sent, elapsed, procVars>>

\* A worker waiting in put is woken once the queue has room
PutWake(w) ==
    /\ worker[w].pc \in {"retry_put", "pause_put"}
    /\ ~Full(queue)
    /\ queue' = Append(queue, worker[w].msg)
    /\ worker' = [worker EXCEPT ![w] =
                    IF worker[w].pc = "pause_put"
                    THEN [pc |-> "pause_sleep", msg |-> NoMsg, sleep |-> PauseSleep]
                    ELSE Idle]
    /\ last' = NoLast
    /\ UNCHANGED <<paused, rate_limiters, bot_metrics, events, queued, admits, sent, elapsed, procVars>>

\* asyncio.sleep(5) of a paused worker is over: back to the top of the loop
PauseSleepDone(w) ==
    /\ worker[w].pc = "pause_sleep"
    /\ worker[w].sleep = 0
    /\ worker' = [worker EXCEPT ![w] = Idle]
    /\ last' = NoLast
    /\ UNCHANGED <<queue, paused, rate_limiters, bot_metrics, events, queued, admits, sent, elapsed, procVars>>

\* _rate_limit_monitor: the sweep of every bot's deque (every 60 seconds in
\* the code, at any time here)
RateLimitSweep ==
    /\ \E b \in LimiterKeys : rate_limiters[b] # Expire(rate_limiters[b])
    /\ rate_limiters' = [b \in LimiterKeys |-> Expire(rate_limiters[b])]
    /\ last' = NoLast
    /\ UNCHANGED <<queue, worker, paused, bot_metrics, events, queued, admits, sent, elapsed, procVars>>

\* Ages and countdowns after one more second
Older(ages) == [i \in 1..Len(ages) |->
                  IF ages[i] > RATE_LIMIT_WINDOW THEN ages[i] ELSE ages[i] + 1]

CountDown(n) == IF n > 0 THEN n - 1 ELSE 0

\* One second passes
Tick ==
    /\ worker' = [w \in Workers |-> [worker[w] EXCEPT !.sleep = CountDown(@)]]
    /\ rate_limiters' = [b \in LimiterKeys |-> Older(rate_limiters[b])]
    /\ bot_metrics' = [b \in Bots |->
                         [bot_metrics[b] EXCEPT !.rate_limit_until = CountDown(@)]]
    /\ admits' = [b \in Bots |-> InClosedWindow(Older(admits[b]))]
    /\ sent' = [b \in Bots |-> InWindow(Older(sent[b]))]
    /\ last' = NoLast
    /\ UNCHANGED <<queue, paused, events, queued, procVars>>

\* ----------------------------------------------------------- specification
\* The state after construction, but for the mapping store, which persists,
\* and for the draft SpecPure follows
InitEngine ==
    /\ queue = <<>>
    /\ worker = [w \in Workers |-> Idle]
    /\ paused = FALSE
    /\ rate_limiters = [b \in LimiterKeys |-> <<>>]
    /\ bot_metrics = [b \in Bots |->
                        [success_rate |-> Scale, consecutive_failures |-> 0,
                         rate_limit_until |-> 0]]
    /\ events = 0
    /\ queued = 0
    /\ admits = [b \in Bots |-> <<>>]
    /\ sent = [b \in Bots |-> <<>>]
    /\ elapsed = 0
    /\ last = NoLast
    /\ source = <<>>
    /\ stats = [p \in PairIds |-> NoStats]
    /\ status = [p \in PairIds |-> InitPairs[p].status]
    /\ copies = <<>>
    /\ life = [running |-> TRUE, stop |-> "no", monitors |-> [m \in Monitors |-> "running"],
               connected |-> TRUE, errors |-> 0]
    /\ pairs = PairIds
    /\ source_to_pairs = [chat \in AllChats |-> SourceToPairs(InitPairs, chat)]
    /\ loading = {}
    /\ table = PairIds

\* A first start: the mapping store is empty
Init ==
    /\ InitEngine
    /\ mappings = {}
    /\ delivered = {}
    /\ draft = NoDraft
    /\ outgoing = <<>>

\* The orders in which an earlier run may have copied source messages
CopiedBefore == {<<>>, <<1>>, <<2>>, <<1, 2>>, <<2, 1>>}

\* The rows an earlier run left in the store for pair 1 when it copied the
\* source messages of `order`: the k-th was copied as message k of the pair's
\* destination chat, by the bot the pair was assigned then (the k-th bot of
\* that run)
StoredRows(order) ==
    {[source_message_id |-> order[k], pair_id |-> 1, destination_message_id |-> k,
      bot_index |-> k - 1,
      destination_chat_id |-> InitPairs[1].destination_chat_id] : k \in 1..Len(order)}

\* A later start: the store holds what earlier runs saved
InitProc ==
    /\ InitEngine
    /\ \E order \in CopiedBefore : mappings = StoredRows(order)
    /\ delivered = {<<m.destination_chat_id, m.destination_message_id>> : m \in mappings}
    /\ draft = NoDraft
    /\ outgoing = <<>>

\* The source feed, for as long as the events so far number less than n
Feed(n) ==
    /\ events < n
    /\ \E chat \in Chats, is_reply \in BOOLEAN, media \in BOOLEAN :
            HandleNewMessage(chat, is_reply, media)

\* The source feed, for as long as its events queue no more than n items
FeedItems(n) ==
    \E chat \in Chats, is_reply \in BOOLEAN, media \in BOOLEAN :
        /\ queued + Len(SourceToPairs(InitPairs, chat)) <= n
        /\ HandleNewMessage(chat, is_reply, media)

\* The worker loop up to the awaits that time or a full queue hold up
WorkerLoop ==
    \/ \E w \in Workers : Dequeue(w)
    \/ \E w \in Workers : WorkerPaused(w)
    \/ \E w \in Workers : ProcessStart(w)
    \/ \E w \in Workers, outcome \in Outcomes, fallback \in {"ok", "failed"} :
            ProcessSend(w, outcome, fallback)
    \/ \E w \in Workers : BackoffDone(w)

\* The feed delivers up to MaxEvents events, the administrator pauses and
\* resumes at will, and time is not bounded.  The events queue fewer items
\* than it takes to fill the queue while a worker holds one, so no put waits.
Next ==
    \/ Feed(MaxEvents)
    \/ CmdPause
    \/ CmdResume
    \/ WorkerLoop
    \/ \E w \in Workers : PauseSleepDone(w)
    \/ RateLimitSweep
    \/ Tick /\ UNCHANGED elapsed

Spec == Init /\ [][Next]_vars

\* The first MaxTime seconds after start, with events for up to MaxItems
\* items.  MaxTime is less than the 5 seconds a paused worker sleeps and the
\* 60 seconds to the monitor's first sweep, so neither happens.
NextQueue ==
    \/ FeedItems(MaxItems)
    \/ CmdPause
    \/ CmdResume
    \/ WorkerLoop
    \/ \E w \in Workers : PutWake(w)
    \/ elapsed < MaxTime /\ Tick /\ elapsed' = elapsed + 1

SpecQueue == Init /\ [][NextQueue]_vars

\* The feed of SpecProc: new messages, edits and deletions, up to n events
FeedEvents(n) ==
    /\ events < n
    /\ \E ev \in NewEvents \cup EditEvents \cup DeleteEvents : HandleSourceEvent(ev)

\* The processor followed: up to MaxProcEvents source events of every kind
\* and the MaxProcTime seconds from the first of them (nothing changes with
\* time before it), the system not paused.  The events queue fewer items
\* than it takes to fill the queue while a worker holds one, so no put waits.
NextProc ==
    \/ FeedEvents(MaxProcEvents)
    \/ \E w \in Workers : Dequeue(w)
    \/ \E w \in Workers : ProcessStart(w)
    \/ \E w \in Workers :
          /\ worker[w].pc = "process"
          /\ \E inp \in InputsFor(worker[w].msg.type, source[worker[w].msg.id]) :
                ProcessItem(w, inp)
    \/ \E w \in Workers : BackoffDone(w)
    \/ RateLimitSweep
    \/ events > 0 /\ elapsed < MaxProcTime /\ Tick /\ elapsed' = elapsed + 1

SpecProc == InitProc /\ [][NextProc]_vars

\* The texts of up to n characters
RECURSIVE Texts(_)
Texts(n) ==
    IF n = 0 THEN {<<>>}
    ELSE LET shorter == Texts(n - 1)
         IN shorter \cup {Append(t, c) : t \in shorter, c \in Chars}

\* The entities filter_text may return with a text: any type, offset and
\* length, whatever the text
Entities ==
    {[type |-> t, offset |-> o, length |-> l] :
        t \in {"Bold", "Unknown"}, o \in (-1)..MaxOffset, l \in 0..(MaxOffset + 1)}

\* The lists of entities: none, one, or one followed by a Bold over the
\* first character
EntityLists ==
    {<<>>}
    \cup {<<e>> : e \in Entities}
    \cup {<<e, [type |-> "Bold", offset |-> 0, length |-> 1]>> : e \in Entities}

\* The drafts: what filter_text returned for a new message that is sent as a
\* text, with a webpage preview or as the caption of media, or for an edit,
\* and the pair's max_message_length
Drafts ==
    {[kind |-> k, text |-> t, entities |-> es, max_message_length |-> m, done |-> FALSE] :
        k \in {"text", "webpage", "caption", "edit"},
        t \in Texts(MaxText),
        es \in EntityLists,
        m \in {0, MaxText - 1}}

\* The functions of the processor and of the metrics on their own: either a
\* draft, which the processor takes to its call, or the metrics of the bots,
\* updated in any order
InitPure ==
    /\ InitEngine
    /\ mappings = {}
    /\ delivered = {}
    /\ draft \in Drafts \cup {NoDraft}
    /\ outgoing = <<>>

NextPure ==
    \/ Transform
    \/ \E b \in Bots, success \in BOOLEAN : UpdateRate(b, success)

SpecPure == InitPure /\ [][NextPure]_vars

\* New messages that are replies
ReplyEvents ==
    {[SourceEvent("new", c, i, 3, m, TRUE, <<>>) EXCEPT !.is_reply = TRUE] :
        c \in AllChats, i \in MsgIds, m \in {"none", "photo"}}

\* Events on the chat of pair 5
OtherChatEvents ==
    {SourceEvent("new", 1003, i, 3, m, TRUE, <<>>) : i \in MsgIds, m \in {"none", "photo"}}
    \cup {SourceEvent("edit", 1003, i, 3, "none", TRUE, <<>>) : i \in MsgIds}
    \cup {SourceEvent("delete", 1003, 0, 0, "none", TRUE, d) : d \in IdBatches}

\* Every event the dispatcher is followed on
DispatchEvents == NewEvents \cup EditEvents \cup DeleteEvents \cup ReplyEvents \cup OtherChatEvents

\* The feed of SpecDispatch, up to n events
FeedDispatch(n) ==
    /\ events < n
    /\ \E ev \in DispatchEvents : HandleSourceEvent(ev)

\* The dispatcher on its own: the administrator sets the status of pairs
\* with /editpair, and up to MaxEvents events of every kind are dispatched
NextDispatch ==
    \/ \E p \in PairIds, value \in {"active", "paused"} : CmdEditPair(p, value)
    \/ FeedDispatch(MaxEvents)

SpecDispatch == Init /\ [][NextDispatch]_vars

\* The source feed on every chat, the chat of pair 5 included
FeedAllChats(n) ==
    /\ events < n
    /\ \E chat \in AllChats, is_reply \in BOOLEAN, media \in BOOLEAN :
            HandleNewMessage(chat, is_reply, media)

\* The first MaxTime seconds after start with up to MaxEvents events on any
\* chat, the system not paused
NextBots ==
    \/ FeedAllChats(MaxEvents)
    \/ \E w \in Workers : Dequeue(w)
    \/ \E w \in Workers : ProcessStart(w)
    \/ \E w \in Workers, outcome \in Outcomes, fallback \in {"ok", "failed"} :
            ProcessSend(w, outcome, fallback)
    \/ \E w \in Workers : BackoffDone(w)
    \/ elapsed < MaxTime /\ Tick /\ elapsed' = elapsed + 1

SpecBots == Init /\ [][NextBots]_vars

\* Edits and deletions processed while the administrator pauses and resumes
\* pairs with /editpair: up to MaxProcEvents events and the MaxProcTime
\* seconds from the first, from a persisted store
NextStatus ==
    \/ /\ events < MaxProcEvents
       /\ \E ev \in EditEvents \cup DeleteEvents : HandleSourceEvent(ev)
    \/ \E p \in PairIds, value \in {"active", "paused"} : CmdEditPair(p, value)
    \/ \E w \in Workers : Dequeue(w)
    \/ \E w \in Workers : ProcessStart(w)
    \/ \E w \in Workers :
          /\ worker[w].pc = "process"
          /\ \E inp \in InputsFor(worker[w].msg.type, source[worker[w].msg.id]) :
                ProcessItem(w, inp)
    \/ \E w \in Workers : BackoffDone(w)
    \/ events > 0 /\ elapsed < MaxProcTime /\ Tick /\ elapsed' = elapsed + 1

SpecStatus == InitProc /\ [][NextStatus]_vars

\* The attributes of a document: Animated, Video (round_message or not),
\* Audio (voice or not), Sticker, and one that says nothing of the type
Attributes ==
    {[type |-> t, flag |-> f] : t \in {"Video", "Audio"}, f \in BOOLEAN}
    \cup {[type |-> t, flag |-> FALSE] : t \in {"Animated", "Sticker", "Filename"}}

\* The classes of the MIME type of a document
MimeClasses == {"none", "image/gif", "image", "video", "audio", "application"}

\* The media descriptors: a photo, or a document with a MIME class and up to
\* two attributes
MediaDescriptors ==
    {[photo |-> TRUE, mime |-> "none", attributes |-> <<>>]}
    \cup {[photo |-> FALSE, mime |-> m, attributes |-> a] :
             m \in MimeClasses,
             a \in {<<>>} \cup {<<x>> : x \in Attributes}
                   \cup {<<x, y>> : x \in Attributes, y \in Attributes}}

\* _get_media_type on its own: a media descriptor is drawn and classified
InitMedia ==
    /\ InitEngine
    /\ mappings = {}
    /\ delivered = {}
    /\ draft \in {[kind |-> "media", media |-> d, done |-> FALSE] : d \in MediaDescriptors}
    /\ outgoing = <<>>

NextMedia == Classify

SpecMedia == InitMedia /\ [][NextMedia]_vars

\* The classes of source entities: the 17 of the mapping table, and two the
\* table does not have
EntityTypes ==
    {Branches[i] : i \in 1..Len(Branches)} \cup {"Blockquote", "Unknown"}

\* The source entities, over the first character of a text: of every class,
\* with and without a url, a user id, a document id and a language
SourceEntities ==
    {[type |-> t, offset |-> 0, length |-> 1, url |-> u, user_id |-> i,
      document_id |-> d, language |-> l] :
        t \in EntityTypes, u \in {"", "https://t.me"}, i \in {0, 7}, d \in {0, 7},
        l \in {"", "python"}}

\* _convert_entities_for_telegram on its own: a source entity is drawn and
\* converted
InitEntities ==
    /\ InitEngine
    /\ mappings = {}
    /\ delivered = {}
    /\ draft \in {[kind |-> "entities", entities |-> <<e>>, done |-> FALSE] :
                    e \in SourceEntities}
    /\ outgoing = <<>>

NextEntities == Convert

SpecEntities == InitEntities /\ [][NextEntities]_vars

\* The database calls of a processing attempt: each completes or raises
DbOutcomes == {"ok", "save_error", "update_error"}

\* New messages processed against a database whose calls can raise: up to
\* MaxProcEvents new messages and the MaxProcTime seconds from the first,
\* from an empty store, the system not paused
NextDb ==
    \/ /\ events < MaxProcEvents
       /\ \E ev \in NewEvents : HandleSourceEvent(ev)
    \/ \E w \in Workers : Dequeue(w)
    \/ \E w \in Workers : GetSettingFails(w)
    \/ \E w \in Workers : ErrorSleepDone(w)
    \/ \E w \in Workers : ProcessStart(w)
    \/ \E w \in Workers :
          /\ worker[w].pc = "process"
          /\ \E inp \in InputsFor(worker[w].msg.type, source[worker[w].msg.id]),
                db \in DbOutcomes :
                ProcessItemDb(w, inp, db)
    \/ \E w \in Workers : BackoffDone(w)
    \/ events > 0 /\ elapsed < MaxProcTime /\ Tick /\ elapsed' = elapsed + 1

SpecDb == Init /\ [][NextDb]_vars

TypeOK ==
    /\ Len(queue) <= MESSAGE_QUEUE_SIZE
    /\ \A w \in Workers : worker[w].pc \in
          {"get", "check_paused", "pause_put", "pause_sleep", "process", "backoff", "retry_put",
           "error_sleep", "cancelled", "done"}

\* ------------------------------------------------------------- observations
\* The items in the system: in the queue or held by a worker
AllMsgs == Items(queue) \cup ({worker[w].msg : w \in Workers} \ {NoMsg})

\* Worker w's queue.get() returns in this step
DequeueStep(w) == worker[w].pc = "get" /\ worker'[w].pc = "check_paused"

\* Worker w's BotSendAPI send call is made and ends in this step
SendStep(w) == worker[w].pc = "process" /\ worker'[w].pc \notin {"process", "cancelled"}

\* Worker w's attempt ends in this step with a denial of _check_rate_limit
DeniedStep(w) == worker[w].pc = "check_paused" /\ worker'[w].pc \in {"backoff", "get"}

\* The place of item m in the order the items of q were put
Pos(q, m) == CHOOSE i \in 1..Len(q) : q[i] = m

\* What update_success_rate writes, for each bot
Ema == [b \in Bots |-> <<bot_metrics[b].success_rate, bot_metrics[b].consecutive_failures>>]

\* ------------------------------------------------------------------ claims
\* C1: while system_paused is "true" no worker makes a send call, whatever
\* the interleaving of the pause command with the workers, a worker that had
\* already dequeued an item included.
C1_NoSendWhilePaused ==
    [][\A w \in Workers : SendStep(w) => ~paused]_vars

\* C2: when _queue_message finds the queue full, the item it discards has the
\* earliest timestamp of all the queued items, whatever its priority.
C2_EvictsEarliestTimestamp ==
    (last.op = "queue_message" /\ last.evicted # NoMsg)
        => \A m \in Items(last.before) : last.evicted.timestamp <= m.timestamp

\* C3: when _queue_message finds the queue full, the incoming item is
\* admitted: afterwards it is in the queue, exactly one of the items queued
\* before is gone, and the queue holds MESSAGE_QUEUE_SIZE items.
C3_IncomingAdmitted ==
    (last.op = "queue_message" /\ Full(last.before))
        => /\ last.msg \in Items(queue)
           /\ last.msg \notin Items(last.before)
           /\ last.evicted \in Items(last.before)
           /\ queue = Append(Remove(last.before, last.evicted), last.msg)
           /\ Cardinality(Items(last.before) \ Items(queue)) = 1
           /\ Len(queue) = MESSAGE_QUEUE_SIZE

C3_Witness ==
    /\ last.op = "queue_message"
    /\ Full(last.before)
    /\ last.evicted # NoMsg
    /\ \E w \in Workers : worker[w].pc \in {"retry_put", "pause_put"}

\* C4: whenever a worker dequeues an item, its priority is at least the
\* priority of every item still in the queue.
C4_DequeuesHighestPriority ==
    [][\A w \in Workers :
          DequeueStep(w) =>
              \A m \in Items(queue') : worker'[w].msg.priority >= m.priority]_vars

C4_Witness ==
    \E w \in Workers :
        /\ worker[w].pc = "check_paused"
        /\ \E m \in Items(queue) :
              /\ m.priority < worker[w].msg.priority
              /\ m.timestamp < worker[w].msg.timestamp

\* C5 as stated: of two items of one priority level, the one put into the
\* queue first (by the dispatcher, a paused worker or a retrying worker) is
\* the one dequeued first.
C5_FifoByPutOrder ==
    [][\A w \in Workers :
          DequeueStep(w) =>
              \A i \in 1..Len(queue) :
                  (queue[i].priority = worker'[w].msg.priority /\ queue[i] # worker'[w].msg)
                      => Pos(queue, worker'[w].msg) < i]_vars

\* C5, amended: of the items of one priority level in the queue, the one
\* dequeued is the one with the earliest timestamp, the time the dispatcher
\* first queued it; a re-enqueued item keeps its timestamp.
C5_FifoByTimestamp ==
    [][\A w \in Workers :
          DequeueStep(w) =>
              \A m \in Items(queue') :
                  m.priority = worker'[w].msg.priority
                      => worker'[w].msg.timestamp < m.timestamp]_vars

C5_Witness ==
    \E w \in Workers :
        /\ worker[w].pc = "check_paused"
        /\ worker[w].msg.retry_count >= 1
        /\ \E m \in Items(queue) :
              /\ m.priority = worker[w].msg.priority
              /\ m.retry_count = 0

\* C6 as stated: for every bot, the successful sends within any
\* RATE_LIMIT_WINDOW seconds number at most RATE_LIMIT_MESSAGES.
C6_SendsWithinWindow ==
    \A b \in Bots : Len(sent[b]) <= RATE_LIMIT_MESSAGES

\* C6, amended: for every bot, the admissions of _check_rate_limit within
\* any RATE_LIMIT_WINDOW seconds number at most RATE_LIMIT_MESSAGES.
C6_AdmissionsWithinWindow ==
    \A b \in Bots : Len(admits[b]) <= RATE_LIMIT_MESSAGES

C6_Witness ==
    \E w \in Workers :
        /\ worker[w].pc = "process"
        /\ worker[w].msg.retry_count >= 1
        /\ Len(admits[ResolveBot(worker[w].msg.bot_index)]) = RATE_LIMIT_MESSAGES
        /\ \E v \in Workers : worker[v].pc = "backoff"

\* C7: a send that fails with RetryAfter(s) sets the bot's rate_limit_until
\* to now + s.
C7_FloodWaitSetsRateLimitUntil ==
    [][\A w \in Workers :
          ProcessSend(w, "RetryAfter", "ok") =>
              bot_metrics'[ResolveBot(worker[w].msg.bot_index)].rate_limit_until
                  = RetryAfterSecs]_vars

\* C8: an attempt that ends because of rate limiting (a denial of
\* _check_rate_limit, or an upstream RetryAfter) leaves every bot's success
\* rate and consecutive-failure count as they were.
C8_RateLimitKeepsMetrics ==
    [][\A w \in Workers :
          (DeniedStep(w) \/ ProcessSend(w, "RetryAfter", "ok")) => Ema' = Ema]_vars

\* C9: every item has retry_count <= max_retries, and is handed to
\* _process_queued_message at most max_retries + 1 times.
C9_RetryBound ==
    \A m \in AllMsgs :
        /\ m.retry_count <= max_retries
        /\ m.handed <= max_retries + 1

C9_Witness ==
    \E w \in Workers :
        /\ worker[w].pc = "process"
        /\ worker[w].msg.retry_count = max_retries
        /\ worker[w].msg.handed = max_retries + 1

\* C10: an item whose send fails with Forbidden is terminal: the worker is
\* done with it, it is not re-enqueued and not sent again.
C10_ForbiddenIsTerminal ==
    [][\A w \in Workers :
          ProcessSend(w, "Forbidden", "ok") => worker'[w] = Idle]_vars

\* C11: when a send fails with BadRequest and the degraded send fails too,
\* the item is terminal: the worker is done with it and does not re-enqueue
\* it.
C11_BadRequestIsTerminal ==
    [][\A w \in Workers :
          ProcessSend(w, "BadRequest", "failed") => worker'[w] = Idle]_vars

\* C12: an attempt that fails with NetworkError or TimedOut and leads to a
\* retry leaves the bot's success rate and consecutive-failure count as they
\* were; only the item's last attempt counts as a failure.
C12_RetriedFailureKeepsMetrics ==
    [][\A w \in Workers :
          (ProcessSend(w, "NetworkError", "ok") /\ worker'[w].pc = "backoff")
              => Ema' = Ema]_vars

\* The last step was a processing attempt for an item of the given type
Processed(type) == last.op = "process" /\ last.msg.type = type

\* The pair of the item last processed
LastPair == InitPairs[last.msg.pair_id]

\* The counters of the pair of the item last processed, as the attempt left them
LastStats == stats[last.msg.pair_id]

\* C13: a new message whose filtered text is shorter than the pair's
\* min_message_length is handled on the success path: the attempt returns
\* success, messages_filtered goes up by 1, no send_* call is made, and the
\* item is not retried.
C13_ShortTextIsFiltered ==
    (/\ Processed("new_message")
     /\ last.att.ev.copy
     /\ LastPair.min_message_length > 0
     /\ last.att.ev.text_len < LastPair.min_message_length)
        => /\ last.att.result
           /\ LastStats.messages_filtered = last.att.stats.messages_filtered + 1
           /\ last.att.sends = 0
           /\ ~last.att.retried

\* C14: every MessageMapping saved names a message that a send_* call to the
\* pair's destination chat returned before, with exactly that message id;
\* an attempt whose send failed or was not made saves no mapping.
C14_MappingHasDelivery ==
    /\ \A m \in mappings :
          /\ m.destination_chat_id = InitPairs[m.pair_id].destination_chat_id
          /\ <<m.destination_chat_id, m.destination_message_id>> \in delivered
    /\ (last.op = "process" /\ mappings # last.att.mappings)
          => /\ last.msg.type = "new_message"
             /\ last.att.result
             /\ last.att.sends >= 1

C14_Witness ==
    /\ Processed("new_message")
    /\ \E m \in mappings \ last.att.mappings :
          /\ m.source_message_id = last.att.ev.id
          /\ m.pair_id = last.msg.pair_id
    /\ last.msg.retry_count >= 1

\* C15: (source_message_id, pair_id) is unique in the store in every
\* reachable state, and after a new message was copied, for the first time
\* or again, the store holds exactly one row for its source message id and
\* pair.
C15_MappingKeyUnique ==
    /\ \A m1, m2 \in mappings :
          (m1.source_message_id = m2.source_message_id /\ m1.pair_id = m2.pair_id)
              => m1 = m2
    /\ (Processed("new_message") /\ last.att.result /\ last.att.sends >= 1)
          => Cardinality(GetMessageMapping(mappings, last.att.ev.id, last.msg.pair_id)) = 1

C15_Witness ==
    /\ Processed("new_message")
    /\ last.att.result
    /\ last.att.sends >= 1
    /\ GetMessageMapping(last.att.mappings, last.att.ev.id, last.msg.pair_id) # {}
    /\ Cardinality(mappings) = 2

\* The rows the store held for the event of the last attempt before it ran
LastFound == GetMessageMapping(last.att.mappings, last.att.ev.id, last.msg.pair_id)

\* C16: processing an edit whose (source message id, pair id) has no mapping
\* makes no edit_message_text call (and no other upstream call), changes no
\* counter and no mapping, returns success, and the item is not retried.
C16_EditWithoutMappingIsNoOp ==
    (Processed("edit_message") /\ LastFound = {})
        => /\ last.att.edits = <<>>
           /\ last.att.sends = 0
           /\ last.att.deletes = <<>>
           /\ LastStats = last.att.stats
           /\ mappings = last.att.mappings
           /\ last.att.result
           /\ ~last.att.retried
           /\ \A w \in Workers : worker[w].msg # last.msg

C16_Witness ==
    /\ Processed("edit_message")
    /\ LastFound = {}
    /\ last.att.result
    /\ mappings # {}

\* The positions of the batch ids whose id has a mapping for the pair in ms
MappedAt(ids, pair_id, ms) ==
    {i \in 1..Len(ids) : GetMessageMapping(ms, ids[i], pair_id) # {}}

\* The delete batch of worker w's item, processed meeting inp, does what C17
\* says of it
DeleteBatchAsClaimed(w, inp) ==
    LET msg == worker[w].msg
        ev == source[msg.id]
        pair == InitPairs[msg.pair_id]
        at == MappedAt(ev.deleted_ids, msg.pair_id, mappings)
        calls == last'.att.deletes
        gone == {i \in at : inp.dels[i] = "ok"}
    IN /\ \A i \in at :
             \A m \in GetMessageMapping(mappings, ev.deleted_ids[i], msg.pair_id) :
                Cardinality({k \in 1..Len(calls) :
                               calls[k] = <<pair.destination_chat_id,
                                            m.destination_message_id>>}) = 1
       /\ Len(calls) = Cardinality(at)
       /\ stats'[msg.pair_id].deletes_synced =
             stats[msg.pair_id].deletes_synced + Cardinality(gone)
       /\ (\A i \in at : inp.dels[i] \in {"ok", "not_found"}) => last'.att.result

\* C17: a delete batch invokes delete_message exactly once for each deleted
\* id that has a mapping for the pair, on the mapped destination id, and never
\* for an id without one; deletes_synced grows by the number of destination
\* messages deleted; "message to delete not found" is swallowed, the result
\* still success.
C17_DeleteBatch ==
    [][\A w \in Workers :
          (worker[w].pc = "process" /\ worker[w].msg.type = "delete_message")
              => \A inp \in InputsFor("delete_message", source[worker[w].msg.id]) :
                    ProcessItem(w, inp) => DeleteBatchAsClaimed(w, inp)]_vars

\* The edit of worker w's item, processed meeting inp, calls edit_message_text
\* on the mapped destination message, counts a successful edit and takes
\* "message is not modified" for success
EditAsClaimed(w, inp) ==
    LET msg == worker[w].msg
        ev == source[msg.id]
        pair == InitPairs[msg.pair_id]
    IN /\ \E m \in GetMessageMapping(mappings, ev.id, msg.pair_id) :
             last'.att.edits = <<<<pair.destination_chat_id, m.destination_message_id>>>>
       /\ inp.edit = "ok" =>
             /\ stats'[msg.pair_id].edits_synced = stats[msg.pair_id].edits_synced + 1
             /\ last'.att.result
       /\ inp.edit = "not_modified" => last'.att.result

\* An edit step of worker w for a source message that has a mapping
MappedEdit(w) ==
    /\ worker[w].pc = "process"
    /\ worker[w].msg.type = "edit_message"
    /\ GetMessageMapping(mappings, source[worker[w].msg.id].id, worker[w].msg.pair_id) # {}

\* C18 as stated: an edit processed for a source message that has a mapping
\* for the pair invokes edit_message_text with the pair's destination chat id
\* and the mapping's destination message id; on success edits_synced grows by
\* 1; "message is not modified" is success.
C18_MappedEditIsSent ==
    [][\A w \in Workers :
          MappedEdit(w)
              => \A inp \in InputsFor("edit_message", source[worker[w].msg.id]) :
                    ProcessItem(w, inp) => EditAsClaimed(w, inp)]_vars

\* C18 as amended: the same, for an edit whose processed content is not
\* empty (an edit left without content makes no call and fails).
C18_MappedEditWithContentIsSent ==
    [][\A w \in Workers :
          (/\ MappedEdit(w)
           /\ ~NoContent(ProcessMessageContent(source[worker[w].msg.id],
                                               InitPairs[worker[w].msg.pair_id])))
              => \A inp \in InputsFor("edit_message", source[worker[w].msg.id]) :
                    ProcessItem(w, inp) => EditAsClaimed(w, inp)]_vars

C18_Witness ==
    /\ Processed("edit_message")
    /\ \E m \in LastFound :
          /\ m.destination_message_id # m.source_message_id
          /\ last.att.edits = <<<<LastPair.destination_chat_id, m.destination_message_id>>>>
    /\ LastStats.edits_synced = last.att.stats.edits_synced + 1
    /\ last.att.result

\* C19: a new message carrying media whose classified type is not in the
\* pair's allowed_media_types (webpage included, caption empty or not) is
\* dropped: no send_* call, messages_filtered + 1, success.
C19_DisallowedMediaIsFiltered ==
    (/\ Processed("new_message")
     /\ last.att.ev.copy
     /\ last.att.ev.media # "none"
     /\ (IF last.att.ev.media = "webpage" THEN "webpage"
         ELSE GetMediaType(last.att.ev.media)) \notin LastPair.allowed_media_types)
        => /\ last.att.sends = 0
           /\ LastStats.messages_filtered = last.att.stats.messages_filtered + 1
           /\ last.att.result

\* C20: when all DownloadAttempts downloads of a message's media fail, the
\* attempt is a retryable failure: no send_* call, no mapping saved, and the
\* item is re-enqueued while its retries are under the cap.
C20_FailedDownloadIsRetried ==
    [][\A w \in Workers :
          (worker[w].pc = "process" /\ worker[w].msg.type = "new_message")
              => \A inp \in InputsFor("new_message", source[worker[w].msg.id]) :
                    (/\ ProcessItem(w, inp)
                     /\ inp.good = 0
                     /\ last'.att.tries = DownloadAttempts)
                        => /\ last'.att.sends = 0
                           /\ mappings' = mappings
                           /\ ~last'.att.result
                           /\ worker[w].msg.retry_count < max_retries
                                 => worker'[w].pc = "backoff"]_vars

\* C21: in every outgoing send_message, send_* caption and edit_message_text
\* call, each entity has 0 <= offset and offset + length <= the UTF-16 length
\* of the text (or caption) sent with it.
C21_EntitiesWithinText ==
    \A i \in 1..Len(outgoing) :
        \A k \in 1..Len(outgoing[i].entities) :
            LET e == outgoing[i].entities[k]
            IN /\ 0 <= e.offset
               /\ e.offset + e.length <= Utf16Len(outgoing[i].text)

\* C22: with max_message_length = m > 0 and a text longer than m, the output
\* text is the first m characters followed by "...", and an entity that
\* starts inside the retained text and extends past position m is kept with
\* its length clipped to m - offset.  (Stated for a text of BMP characters,
\* where characters and UTF-16 units count alike, sent as a text message.)
C22_TruncationClipsEntities ==
    LET m == draft.max_message_length IN
    (/\ draft.done
     /\ draft.kind = "text"
     /\ m > 0
     /\ Len(draft.text) > m
     /\ \A i \in 1..Len(draft.text) : draft.text[i] = 1)
        => /\ Len(outgoing) = 1
           /\ outgoing[1].text = Take(draft.text, m) \o Dots
           /\ \A k \in 1..Len(draft.entities) :
                 LET e == draft.entities[k] IN
                 (/\ e.type = "Bold"
                  /\ 0 <= e.offset
                  /\ e.offset < m
                  /\ e.offset + e.length > m)
                     => \E j \in 1..Len(outgoing[1].entities) :
                           outgoing[1].entities[j] = [e EXCEPT !.length = m - e.offset]

\* C23: every bot's success_rate stays within [0, 1] after any sequence of
\* update_success_rate calls from 1.0.
C23_SuccessRateInUnitInterval ==
    \A b \in Bots :
        /\ 0 <= bot_metrics[b].success_rate
        /\ bot_metrics[b].success_rate <= Scale

C23_Witness ==
    /\ draft = NoDraft
    /\ \E b \in Bots :
          /\ bot_metrics[b].success_rate = 1
          /\ bot_metrics[b].consecutive_failures = 0

\* C24: _queue_message never waits on a consumer: in every queue state, a
\* full queue with workers waiting in put included, it completes without
\* suspending for queue space.
C24_EnqueueNeverWaits ==
    last.op = "queue_message" => (~last.waited /\ last.msg \in Items(queue))

C24_Witness ==
    /\ last.op = "queue_message"
    /\ Full(last.before)
    /\ ~last.waited
    /\ Len(queue) = MESSAGE_QUEUE_SIZE
    /\ \E w \in Workers : worker[w].pc = "retry_put"

\* C25: the message queue never holds more than MESSAGE_QUEUE_SIZE items,
\* under any interleaving of dispatcher enqueues, worker dequeues, pause
\* re-enqueues and retry re-enqueues.
C25_QueueBounded ==
    Len(queue) <= MESSAGE_QUEUE_SIZE

C25_Witness ==
    /\ Len(queue) = MESSAGE_QUEUE_SIZE
    /\ \E w \in Workers : worker[w].pc = "pause_put"
    /\ \E w \in Workers : worker[w].pc \in {"backoff", "retry_put"}

\* C26: the item _queue_message discards from a full queue has the lowest
\* priority level present in the queue and is the oldest item of that level;
\* no item is evicted while an item of lower priority stays queued.
C26_EvictsLowestPriority ==
    (last.op = "queue_message" /\ last.evicted # NoMsg)
        => \A m \in Items(last.before) :
              /\ last.evicted.priority <= m.priority
              /\ m.priority = last.evicted.priority
                    => last.evicted.timestamp <= m.timestamp

\* C27: an item denied by the rate limiter goes into a backoff of 2, 4, 8
\* seconds for its first, second, third retry with retry_count incremented
\* by 1, and is put back into the queue only when the backoff is over; a
\* denial at retry_count = 3 drops the item.
C27_DenialBacksOffExponentially ==
    [][\A w \in Workers :
          /\ DeniedStep(w) =>
                LET m == worker[w].msg IN
                IF m.retry_count < 3
                THEN /\ worker'[w].pc = "backoff"
                     /\ worker'[w].msg.id = m.id
                     /\ worker'[w].msg.retry_count = m.retry_count + 1
                     /\ worker'[w].sleep = CASE m.retry_count = 0 -> 2
                                             [] m.retry_count = 1 -> 4
                                             [] OTHER -> 8
                     /\ \A q \in Items(queue') : q.id # m.id
                ELSE /\ worker'[w] = Idle
                     /\ \A q \in Items(queue') : q.id # m.id
          /\ (worker[w].pc = "backoff" /\ worker'[w].pc # "backoff")
                => /\ worker[w].sleep = 0
                   /\ \/ worker[w].msg \in Items(queue')
                      \/ worker'[w].pc = "retry_put"]_vars

C27_Witness ==
    /\ last.op = "denied"
    /\ last.msg.retry_count = max_retries
    /\ \A w \in Workers : worker[w].msg.id # last.msg.id
    /\ \A q \in Items(queue) : q.id # last.msg.id

\* The pairs that qualify for the event ev: on its source chat, active, and
\* for an edit with sync_edits true, for a deletion with sync_deletes true
Qualifying(ev) ==
    {p \in PairIds :
        /\ InitPairs[p].source_chat_id = ev.chat_id
        /\ status[p] = "active"
        /\ ev.kind = "edit" =>
              (IF "sync_edits" \in InitPairs[p].unset THEN TRUE ELSE InitPairs[p].sync_edits)
        /\ ev.kind = "delete" =>
              (IF "sync_deletes" \in InitPairs[p].unset THEN FALSE
               ELSE InitPairs[p].sync_deletes)}

\* The items the handler queues in this step for ev are one item of the
\* event's kind for each pair of ps, and no other
QueuesOneEach(ev, ps) ==
    LET items == IF queued' = queued THEN <<>> ELSE last'.batch IN
    /\ Len(items) = queued' - queued
    /\ Len(items) = Cardinality(ps)
    /\ \A i \in 1..Len(items) :
          /\ items[i].pair_id \in ps
          /\ items[i].type = CASE ev.kind = "new" -> "new_message"
                               [] ev.kind = "edit" -> "edit_message"
                               [] OTHER -> "delete_message"
          /\ \A j \in 1..Len(items) : items[j].pair_id = items[i].pair_id => j = i

\* C28: the dispatcher enqueues an item for a pair only if the pair
\* is active at dispatch time, an edit only if sync_edits is true (default
\* true), a delete only if sync_deletes is true (default false); one item is
\* enqueued for each qualifying pair of the event's source chat.
C28_OneItemPerQualifyingPair ==
    [][events' # events =>
          \A ev \in DispatchEvents :
              HandleSourceEvent(ev) => QueuesOneEach(ev, Qualifying(ev))]_vars

\* C29: the priority of an enqueued item is HIGH for a new message that is a
\* reply when preserve_replies is true (the default) or that carries media,
\* NORMAL for any other new message, HIGH for every edit and NORMAL for every
\* delete.
C29_Priorities ==
    last.op = "queue_message" =>
        \A i \in 1..Len(last.batch) :
            LET m == last.batch[i]
                ev == source[m.id]
                pair == InitPairs[m.pair_id]
                preserve == IF "preserve_replies" \in pair.unset THEN TRUE
                            ELSE pair.preserve_replies
            IN m.priority =
                  CASE ev.kind = "new" ->
                          IF (ev.is_reply /\ preserve) \/ ev.media # "none"
                          THEN HIGH ELSE NORMAL
                    [] ev.kind = "edit" -> HIGH
                    [] OTHER -> NORMAL

C29_Witness ==
    /\ last.op = "queue_message"
    /\ last.msg.type = "new_message"
    /\ source[last.msg.id].is_reply
    /\ source[last.msg.id].media = "none"
    /\ ~InitPairs[last.msg.pair_id].preserve_replies
    /\ last.msg.priority = NORMAL

\* C30: the bot used for an item is the one at its bot_index when
\* 0 <= bot_index < number of bots and bot 0 for every other index, negative
\* ones included, and the rate-limit check is made against that same bot.
C30_ResolvedBot ==
    [][\A w \in Workers :
          (worker[w].pc = "check_paused" /\ worker'[w].pc = "process")
              => LET i == worker[w].msg.bot_index
                     b == IF 0 <= i /\ i < NumBots THEN i ELSE 0
                 IN /\ admits'[b] = Append(admits[b], 0)
                    /\ rate_limiters'[b] = Append(Expire(rate_limiters[b]), 0)]_vars

\* C40: for a new message that passes the filter and whose media type is
\* allowed, not blocked by dedup and downloaded successfully, a send call for
\* that media is made and a mapping is saved even when the message text
\* (caption) is empty.
C40_MediaSentWithEmptyText ==
    [][\A w \in Workers :
          (worker[w].pc = "process" /\ worker[w].msg.type = "new_message")
              => LET ev == source[worker[w].msg.id]
                     pair == InitPairs[worker[w].msg.pair_id]
                 IN \A inp \in InputsFor("new_message", ev) :
                       (/\ ProcessItem(w, inp)
                        /\ ev.copy
                        /\ ev.text_len = 0
                        /\ pair.min_message_length = 0
                        /\ ev.media \in {"photo", "video"}
                        /\ GetMediaType(ev.media) \in pair.allowed_media_types
                        /\ ~inp.image_blocked
                        /\ inp.good >= 1
                        /\ inp.outcome = "ok")
                           => /\ last'.att.sends >= 1
                              /\ mappings' # mappings]_vars

\* C35: every work item a worker dequeues is, before that worker dequeues
\* another item, either handed to _process_queued_message or put back into
\* the queue; it is never silently lost, including when reading the
\* system_paused setting raises an exception.
C35_ItemConservation ==
    [][\A w \in Workers :
          (worker[w].pc = "check_paused" /\ worker'[w].msg.id # worker[w].msg.id)
              => \/ \E m \in Items(queue') : m.id = worker[w].msg.id
                 \/ last'.op = "denied" /\ last'.msg.id = worker[w].msg.id]_vars

\* C37: a new-message work item causes at most one successful send_* call
\* over all its attempts: once a send has returned a destination message id,
\* the item is not re-enqueued, even if saving the mapping or updating the
\* pair counters then fails.
C37_AtMostOneCopy ==
    \A i, j \in 1..Len(copies) : copies[i] = copies[j] => i = j

\* Every worker is suspended in the put of a re-enqueue, on a full queue
AllBlocked ==
    /\ Full(queue)
    /\ \A w \in Workers : worker[w].pc \in {"retry_put", "pause_put"}

\* C36: while the system is running and not paused and the queue is
\* non-empty, some worker eventually dequeues an item; the system never
\* reaches a state where all MAX_WORKERS workers are blocked forever in a
\* re-enqueue put() on a full queue while the dispatcher keeps refilling the
\* queue.
C36_WorkerProgress == ~(~paused /\ AllBlocked)

\* C38: no send_*, edit_message_text or delete_message call is made for a
\* pair whose status is not active at the time the worker processes the
\* item: an item enqueued while the pair was active and processed after the
\* pair was paused (or removed by a reload) makes no BotSendAPI call.
C38_NoCallForInactivePair ==
    (last.op = "process" /\ status[last.msg.pair_id] # "active")
        => /\ last.att.sends = 0
           /\ last.att.edits = <<>>
           /\ last.att.deletes = <<>>

\* C39: every edit_message_text and delete_message call for a mapped message
\* is issued through the bot whose index is recorded in that mapping (the bot
\* that performed the copy), also after the pair's assigned bot index has
\* changed through rebalance, reload or the out-of-range fallback.
C39_EditsThroughCopyingBot ==
    last.op = "process" =>
        \A i \in 1..Len(last.att.edits \o last.att.deletes) :
            LET call == (last.att.edits \o last.att.deletes)[i] IN
            \A m \in last.att.mappings :
                (m.destination_chat_id = call[1] /\ m.destination_message_id = call[2])
                    => m.bot_index = BotAt(ResolveBot(last.msg.bot_index))

\* Whether the attributes include one of the type, with the flag
HasAttribute(d, type, flag) ==
    \E i \in 1..Len(d.attributes) :
        d.attributes[i].type = type /\ d.attributes[i].flag = flag

\* The media type the rules give in their priority order: photo type; MIME
\* image/gif or animated attribute; MIME image/*; MIME video/* (video_note
\* with the round-message attribute); audio attribute with the voice flag;
\* MIME audio/*; sticker attribute; document
MediaTypeByRules(d) ==
    CASE d.photo -> "photo"
      [] d.mime = "image/gif" \/ HasAttribute(d, "Animated", FALSE) -> "animation"
      [] d.mime = "image" -> "photo"
      [] d.mime = "video" ->
            IF HasAttribute(d, "Video", TRUE) THEN "video_note" ELSE "video"
      [] HasAttribute(d, "Audio", TRUE) -> "voice"
      [] d.mime = "audio" -> "audio"
      [] HasAttribute(d, "Sticker", FALSE) -> "sticker"
      [] OTHER -> "document"

\* C33: _get_media_type agrees with the priority-ordered rules for every
\* media descriptor built from the attributes {photo type, MIME class,
\* animated, video with/without round_message, audio with/without voice,
\* sticker}: in particular a document with the animated attribute is
\* animation, and a video/* document with the round-message attribute is
\* video_note.
C33_MediaTypeByRules ==
    (draft # NoDraft /\ draft.kind = "media" /\ draft.done)
        => outgoing = <<MediaTypeByRules(draft.media)>>

\* The destination type of the mapping table for a source entity class
\* ("none": the table does not have the class)
MappingTable(type) ==
    CASE type = "Bold" -> "BOLD"
      [] type = "Italic" -> "ITALIC"
      [] type = "Underline" -> "UNDERLINE"
      [] type = "Strike" -> "STRIKETHROUGH"
      [] type = "Spoiler" -> "SPOILER"
      [] type = "Code" -> "CODE"
      [] type = "Pre" -> "PRE"
      [] type = "Url" -> "URL"
      [] type = "TextUrl" -> "TEXT_LINK"
      [] type = "Mention" -> "MENTION"
      [] type = "MentionName" -> "TEXT_MENTION"
      [] type = "CustomEmoji" -> "CUSTOM_EMOJI"
      [] type = "Hashtag" -> "HASHTAG"
      [] type = "Cashtag" -> "CASHTAG"
      [] type = "BotCommand" -> "BOT_COMMAND"
      [] type = "Email" -> "EMAIL"
      [] type = "Phone" -> "PHONE_NUMBER"
      [] OTHER -> "none"

\* C34: _convert_entities_for_telegram maps each of the 17 source entity
\* types to the destination type of the mapping table (TextUrl to TEXT_LINK
\* carrying url, MentionName to TEXT_MENTION carrying the user id, CustomEmoji
\* to CUSTOM_EMOJI carrying the document id as string), drops TextUrl /
\* MentionName / CustomEmoji entities whose payload is empty or missing, and
\* discards unknown types.
C34_EntityMapping ==
    (draft # NoDraft /\ draft.kind = "entities" /\ draft.done)
        => LET e == draft.entities[1]
               dropped == \/ MappingTable(e.type) = "none"
                          \/ e.type = "TextUrl" /\ e.url = ""
                          \/ e.type = "MentionName" /\ e.user_id = 0
                          \/ e.type = "CustomEmoji" /\ e.document_id = 0
           IN IF dropped THEN outgoing = <<>>
              ELSE /\ Len(outgoing) = 1
                   /\ outgoing[1].type = MappingTable(e.type)
                   /\ outgoing[1].offset = e.offset
                   /\ outgoing[1].length = e.length
                   /\ e.type = "TextUrl" => outgoing[1].url = e.url
                   /\ e.type = "MentionName" => outgoing[1].user = e.user_id
                   /\ e.type = "CustomEmoji" =>
                         outgoing[1].custom_emoji_id = IdString(e.document_id)

\* -------------------------------------------------------------------- stop
\* "except Exception" of _message_worker: CancelledError derives from
\* BaseException, every other error the loop meets from Exception
CaughtByExceptException(exc) == exc # "CancelledError"

\* stop() up to its gather: self.running = False and task.cancel() for every
\* task of self.worker_tasks, the workers and the three monitors.  stop()
\* does not suspend in between, and a cancelled task runs no statement past
\* the await it is suspended at.
Stop ==
    /\ life.stop = "no"
    /\ life' = [life EXCEPT !.running = FALSE, !.stop = "gather",
                            !.monitors = [m \in Monitors |-> "cancelled"]]
    /\ worker' = [w \in Workers |-> [worker[w] EXCEPT !.pc = "cancelled"]]
    /\ last' = NoLast
    /\ UNCHANGED <<queue, paused, rate_limiters, bot_metrics, events, queued, admits, sent, elapsed,
                   source, mappings, stats, delivered, status, draft, outgoing,
                   copies, pairs, source_to_pairs, loading, table>>

\* CancelledError is thrown into worker w at its await: the handler of the
\* loop logs it and sleeps a second if it catches it, else the task ends with
\* the item it holds
WorkerCancelled(w) ==
    /\ worker[w].pc = "cancelled"
    /\ IF CaughtByExceptException("CancelledError")
       THEN /\ worker' = [worker EXCEPT ![w] = [pc |-> "error_sleep", msg |-> NoMsg, sleep |-> 1]]
            /\ life' = [life EXCEPT !.errors = @ + 1]
       ELSE /\ worker' = [worker EXCEPT ![w] = [pc |-> "done", msg |-> NoMsg, sleep |-> 0]]
            /\ life' = life
    /\ last' = NoLast
    /\ UNCHANGED <<queue, paused, rate_limiters, bot_metrics, events, queued, admits, sent, elapsed,
                   source, mappings, stats, delivered, status, draft, outgoing,
                   copies, pairs, source_to_pairs, loading, table>>

\* CancelledError is thrown into a monitor at its asyncio.sleep; its
\* "except Exception" is inside the loop and does not catch it
MonitorCancelled(m) ==
    /\ life.monitors[m] = "cancelled"
    /\ life' = [life EXCEPT !.monitors[m] = "done"]
    /\ last' = NoLast
    /\ UNCHANGED <<queue, worker, paused, rate_limiters, bot_metrics, events, queued, admits, sent,
                   elapsed, source, mappings, stats, delivered, status, draft, outgoing,
                   copies, pairs, source_to_pairs, loading, table>>

\* A stop() that does not wait for the tasks
AllTasksDoneNoWait == TRUE

\* What asyncio.gather(*self.worker_tasks, return_exceptions=True) waits for
AllTasksDone ==
    /\ \A w \in Workers : worker[w].pc = "done"
    /\ \A m \in Monitors : life.monitors[m] = "done"

\* gather returns (return_exceptions=True: nothing is raised), the bot
\* applications are stopped
StopGathered ==
    /\ life.stop = "gather"
    /\ AllTasksDone
    /\ life' = [life EXCEPT !.stop = "disconnect"]
    /\ last' = NoLast
    /\ UNCHANGED <<queue, worker, paused, rate_limiters, bot_metrics, events, queued, admits, sent,
                   elapsed, source, mappings, stats, delivered, status, draft, outgoing,
                   copies, pairs, source_to_pairs, loading, table>>

\* self.telethon_client.disconnect(), and stop() returns
StopDisconnect ==
    /\ life.stop = "disconnect"
    /\ life' = [life EXCEPT !.stop = "returned", !.connected = FALSE]
    /\ last' = NoLast
    /\ UNCHANGED <<queue, worker, paused, rate_limiters, bot_metrics, events, queued, admits, sent,
                   elapsed, source, mappings, stats, delivered, status, draft, outgoing,
                   copies, pairs, source_to_pairs, loading, table>>

\* The engine, never paused, with a stop() at any time: the feed delivers
\* for as long as the upstream client is connected, the sweep runs for as
\* long as its monitor does
NextStop ==
    \/ life.connected /\ Feed(MaxEvents)
    \/ \E w \in Workers : Dequeue(w)
    \/ \E w \in Workers : ProcessStart(w)
    \/ \E w \in Workers, outcome \in Outcomes, fallback \in {"ok", "failed"} :
            ProcessSend(w, outcome, fallback)
    \/ \E w \in Workers : BackoffDone(w)
    \/ life.monitors["rate_limit"] = "running" /\ RateLimitSweep
    \/ Tick /\ UNCHANGED elapsed
    \/ Stop
    \/ \E w \in Workers : WorkerCancelled(w)
    \/ \E m \in Monitors : MonitorCancelled(m)
    \/ StopGathered
    \/ StopDisconnect

SpecStop == Init /\ [][NextStop]_vars

\* C31: stop() sets running to false and cancels every worker and monitor
\* task; the upstream client is disconnected only after all of them have
\* terminated; once stop() has returned no worker dequeues or sends; and no
\* cancellation is logged as an error.
C31_StopOrder ==
    /\ [](life.stop # "no" =>
            /\ ~life.running
            /\ \A w \in Workers : worker[w].pc \in {"cancelled", "done"}
            /\ \A m \in Monitors : life.monitors[m] \in {"cancelled", "done"})
    /\ [](~life.connected =>
            /\ \A w \in Workers : worker[w].pc = "done"
            /\ \A m \in Monitors : life.monitors[m] = "done")
    /\ [](life.errors = 0)
    /\ [][life.stop = "returned" =>
            /\ \A w \in Workers : ~DequeueStep(w) /\ ~SendStep(w)
            /\ queue' = queue /\ delivered' = delivered]_vars

\* stop() has returned, with an item left in the queue and a worker that was
\* cancelled while it held another
C31_Witness ==
    /\ life.stop = "returned"
    /\ ~life.connected
    /\ queue # <<>>
    /\ queued > Len(queue)
    /\ \A b \in Bots : sent[b] = <<>> /\ admits[b] = <<>>

\* ------------------------------------------------------------------ reload
\* The pairs /addpair and /delpair create and delete here, and the number of
\* _load_pairs calls that can be in progress at once
Reloadable == {2, 3}
MaxLoads == 2

\* The rows get_all_pairs returned, as _load_pairs reads them
Loaded(rows) ==
    [p \in PairIds |-> IF p \in rows THEN InitPairs[p]
                       ELSE [InitPairs[p] EXCEPT !.status = "deleted"]]

\* A _load_pairs that assigns self.pairs and leaves the index as it was
IndexLeftOld(rows) == source_to_pairs

\* "Build source chat mapping": clear(), then the ids of the active pairs of
\* each chat, in the order of the rows
IndexFor(rows) == [chat \in AllChats |-> SourceToPairs(Loaded(rows), chat)]

\* _cmd_add_pair up to its _load_pairs: db_manager.create_pair
CreatePair(p) ==
    /\ p \notin table
    /\ table' = table \cup {p}
    /\ last' = NoLast
    /\ UNCHANGED <<queue, worker, paused, rate_limiters, bot_metrics, events, queued, admits, sent,
                   elapsed, source, mappings, stats, delivered, status, draft, outgoing,
                   copies, life, pairs, source_to_pairs, loading>>

\* _cmd_delete_pair up to its _load_pairs: a pair of self.pairs,
\* db_manager.delete_pair
DeletePair(p) ==
    /\ p \in pairs
    /\ table' = table \ {p}
    /\ last' = NoLast
    /\ UNCHANGED <<queue, worker, paused, rate_limiters, bot_metrics, events, queued, admits, sent,
                   elapsed, source, mappings, stats, delivered, status, draft, outgoing,
                   copies, life, pairs, source_to_pairs, loading>>

\* _load_pairs up to the return of its one await, get_all_pairs: the caller
\* is an administrator command or reload_pairs
GetAllPairs ==
    /\ Cardinality(loading) < MaxLoads
    /\ loading' = loading \cup {table}
    /\ last' = NoLast
    /\ UNCHANGED <<queue, worker, paused, rate_limiters, bot_metrics, events, queued, admits, sent,
                   elapsed, source, mappings, stats, delivered, status, draft, outgoing,
                   copies, life, pairs, source_to_pairs, table>>

\* _load_pairs after the await: self.pairs is assigned and the index is
\* rebuilt with no await in between
LoadPairsApply(rows) ==
    /\ rows \in loading
    /\ pairs' = rows
    /\ source_to_pairs' = IndexFor(rows)
    /\ loading' = loading \ {rows}
    /\ last' = NoLast
    /\ UNCHANGED <<queue, worker, paused, rate_limiters, bot_metrics, events, queued, admits, sent,
                   elapsed, source, mappings, stats, delivered, status, draft, outgoing,
                   copies, life, table>>

\* _handle_new_message on the registry as loaded: the loop over
\* self.source_to_pairs[chat_id] skips an id self.pairs.get does not find
HandleNewMessageLoaded(chat, is_reply, media) ==
    /\ LET event == [id |-> events + 1, is_reply |-> is_reply, media |-> media]
           start == [q |-> queue, msg |-> NoMsg, evicted |-> NoMsg, before |-> queue,
                     q_no |-> queued, waited |-> FALSE, batch |-> <<>>]
           found == SelectSeq(source_to_pairs[chat], LAMBDA p : p \in pairs)
       IN \E r \in HandleLoop(start, found, event) :
            /\ queue' = r.q
            /\ last' = [NoLast EXCEPT !.op = "queue_message", !.msg = r.msg,
                                      !.evicted = r.evicted, !.before = r.before,
                                      !.waited = r.waited, !.batch = r.batch]
            /\ queued' = r.q_no
    /\ events' = events + 1
    /\ UNCHANGED <<worker, paused, rate_limiters, bot_metrics, admits, sent, elapsed, procVars>>

\* The feed and the workers while pairs are created, deleted and reloaded
NextReload ==
    \/ \E chat \in AllChats, is_reply \in BOOLEAN, media \in BOOLEAN :
            events < MaxEvents /\ HandleNewMessageLoaded(chat, is_reply, media)
    \/ \E p \in Reloadable : CreatePair(p)
    \/ \E p \in Reloadable : DeletePair(p)
    \/ GetAllPairs
    \/ \E rows \in SUBSET PairIds : LoadPairsApply(rows)
    \/ \E w \in Workers : Dequeue(w)
    \/ \E w \in Workers : ProcessStart(w)
    \/ \E w \in Workers, outcome \in Outcomes, fallback \in {"ok", "failed"} :
            ProcessSend(w, outcome, fallback)

SpecReload == Init /\ [][NextReload]_vars

\* C32: at every point a handler or a worker can run, the index
\* source_to_pairs is the one built from the rows self.pairs holds: for
\* every chat, exactly the active pairs of self.pairs with that source chat,
\* each once.  A handler never queues an item for a pair self.pairs lacks.
C32_ReloadAtomic ==
    /\ [](\A chat \in AllChats :
            /\ {source_to_pairs[chat][i] : i \in 1..Len(source_to_pairs[chat])} =
                  {p \in pairs : InitPairs[p].status = "active"
                                 /\ InitPairs[p].source_chat_id = chat}
            /\ \A i, j \in 1..Len(source_to_pairs[chat]) :
                  source_to_pairs[chat][i] = source_to_pairs[chat][j] => i = j)
    /\ [][events' # events =>
            /\ last'.op = "queue_message"
            /\ \A i \in 1..Len(last'.batch) : last'.batch[i].pair_id \in pairs]_vars

\* A reload left self.pairs without a pair the table has again, another
\* reload is in progress, and an event was handled on the registry
C32_Witness ==
    /\ pairs # PairIds
    /\ table # pairs
    /\ loading # {}
    /\ events > 0
    /\ last.op = "queue_message"
    /\ last.batch # <<>>

====
